---- MODULE Spec2Model ----
(***************************************************************************)
(* Conformed (silver) and analytics (gold) fact construction of the        *)
(* bronze -> silver -> gold pipeline:                                      *)
(*   silver/nodes.py  build_silver_sales_daily  (aggregation, pack-unit    *)
(*                    adjustment, outer join, stockout, id mapping)        *)
(*   gold/nodes.py    _dense_calendar, build_fact_daily_store_product      *)
(*                                                                         *)
(* Tables are sets of records (bronze tables after drop_duplicates, the    *)
(* silver fact, whose rows are unique on the raw key) or bags of records   *)
(* (the gold fact, which may hold the same row twice).  Row order is not   *)
(* modelled; the order the code relies on (date order inside a group) is   *)
(* taken from target_date.  Dates are day numbers (day 1 = 2025-08-10),    *)
(* quantities are whole numbers, surrogate ids and prices are their        *)
(* string forms, NA is the missing value (NaN / <NA>).                     *)
(***************************************************************************)
EXTENDS Integers, FiniteSets, Sequences, Bags, TLC

\* ------------------------------------------------------------------ bounds
MaxBronzeRows == 3      \* rows of bronze.sales_all plus bronze.deliveries_all
LastDay == 3            \* target_date ranges over day 1 .. LastDay
MaxFrameRows == 2       \* rows of one bronze table given to a merge node
MaxClock == 1           \* the wall clock runs from 0 to MaxClock
MaxMappingRows == 2     \* rows of the raw mapping tables given to a union
MaxRawRows == 1         \* rows of one raw source table
MaxItems == 2           \* records nested in one row of a Galaxy JSON table
MaxDimRows == 2         \* rows (versions) of a silver dimension
MaxPayloadRows == 2     \* rows of a raw table handed to a normalizer

\* ------------------------------------------------------------- value sets
NA == "NA"
Customers == {"1001"}
Stores == {"2", "3"}
Products == {"29", "72"}         \* "29" is the pack SKU, "72" the product sold
Days == 1 .. LastDay
Quantities == {1, 2}

NotBuilt == [status |-> "not_built"]
NoPayload == [normalizer |-> "none"]

\* ---------------------------------------------------------------- helpers
Max(a, b) == IF a >= b THEN a ELSE b

\* Sum of the q fields of a set of records (pandas .sum() of a column).
RECURSIVE SumQ(_)
SumQ(S) ==
    IF S = {} THEN 0
    ELSE LET x == CHOOSE y \in S : TRUE IN x.q + SumQ(S \ {x})

MinOf(S) == CHOOSE x \in S : \A y \in S : x <= y
MaxOf(S) == CHOOSE x \in S : \A y \in S : x >= y

\* ------------------------------------------------------------ input tables
\* bronze.sales_all rows (columns read by the silver builder)
SalesRowsOf(stores, qtys) ==
    [_customer_id : Customers, number_store : stores, number_product : Products,
     target_date : Days, sales_qty : qtys]

\* bronze.deliveries_all rows
DeliveryRowsOf(stores, qtys) ==
    [_customer_id : Customers, number_store : stores, number_product : Products,
     target_date : Days, delivery_qty : qtys]

\* raw_1001_mapping_delivery2sales / params:delivery_to_sales_map rows:
\* deliveries of pack "29" count as Factor units of product "72"
Factor == 2
m29 == [_customer_id |-> "1001", number_product_delivery |-> "29",
        number_product_sales |-> "72", factor |-> Factor]
\* a second row for the same delivery-side key (the join's right side is then
\* no longer unique)
m29dup == [_customer_id |-> "1001", number_product_delivery |-> "29",
           number_product_sales |-> "72", factor |-> Factor + 1]
Delivery2SalesTables == {{}, {m29}, {m29, m29dup}}

\* mapping_product_union / mapping_store_union rows, in table order.  The
\* natural numbers are unique per customer only: customer 1002 has a product
\* "29" and a store "2" of its own.
p29 == [id_product |-> "10010002", number_product |-> "29", _customer_id |-> "1001"]
p72 == [id_product |-> "10010003", number_product |-> "72", _customer_id |-> "1001"]
p29_1002 == [id_product |-> "10020001", number_product |-> "29", _customer_id |-> "1002"]
s2 == [id_store |-> "100190001", number_store |-> "2", _customer_id |-> "1001"]
s3 == [id_store |-> "100190002", number_store |-> "3", _customer_id |-> "1001"]
s2_1002 == [id_store |-> "100290001", number_store |-> "2", _customer_id |-> "1002"]
\* a second surrogate id for product "29" / store "2" of customer 1001, as
\* the mapping unions return when a natural number is listed with two ids
p29_again == [id_product |-> "10010004", number_product |-> "29", _customer_id |-> "1001"]
s2_again == [id_store |-> "100190003", number_store |-> "2", _customer_id |-> "1001"]
\* all products mapped; the pack SKU unmapped; no product of 1001 mapped
ProductMappingTables == {<<p29, p72, p29_1002>>, <<p72>>, <<p29_1002>>}
\* all stores mapped; no store of 1001 mapped
StoreMappingTables == {<<s2, s3, s2_1002>>, <<s2_1002>>}

\* gold.dim_product rows (id_product, number_product, product_name, moq,
\* price_current); one row per id_product (the row of the products without a
\* surrogate id has the missing id)
DimProductPriced ==
    { [id_product |-> "10010002", number_product |-> "29",
       product_name |-> "Kuerbisbroetchen Teigling", moq |-> "0",
       price_current |-> "16.20"],
      [id_product |-> "10010003", number_product |-> "72",
       product_name |-> "Kuerbisbroetchen", moq |-> "0",
       price_current |-> "1.35"],
      [id_product |-> NA, number_product |-> "88",
       product_name |-> "Brezel", moq |-> "0",
       price_current |-> "0.99"] }
DimProductPackUnpriced ==
    { [id_product |-> "10010002", number_product |-> "29",
       product_name |-> "Kuerbisbroetchen Teigling", moq |-> "0",
       price_current |-> NA],
      [id_product |-> "10010003", number_product |-> "72",
       product_name |-> "Kuerbisbroetchen", moq |-> "0",
       price_current |-> "1.35"] }
DimProductTables == {DimProductPriced, DimProductPackUnpriced}

\* gold.dim_store rows (id_store, number_store, store_name, store_address);
\* one row per id_store
ds2 == [id_store |-> "100190001", number_store |-> "2",
       store_name |-> "Filiale Hochbetrieb",
       store_address |-> "Kosmonautengasse 1 - 13353 - Glitzerstadt"]
ds3 == [id_store |-> "100190002", number_store |-> "3",
       store_name |-> "Filiale Nebenstrasse",
       store_address |-> "Sternenweg 2 - 13353 - Glitzerstadt"]
dsNA == [id_store |-> NA, number_store |-> "9",
        store_name |-> "Filiale Neu",
        store_address |-> "Mondplatz 3 - 13353 - Glitzerstadt"]
\* both stores and the store without a surrogate id; store "2" alone
DimStoreTables == {{ds2, ds3, dsNA}, {ds2}}

\* ------------------------------------------------------------------- state
VARIABLES
    bronze_sales_all,        \* bronze.sales_all
    bronze_deliveries_all,   \* bronze.deliveries_all
    map_delivery2sales,      \* raw_1001_mapping_delivery2sales (silver input)
    delivery_to_sales_map,   \* params:delivery_to_sales_map (gold input)
    mapping_product_union,   \* mapping_product_union
    mapping_store_union,     \* mapping_store_union
    dim_product,             \* gold.dim_product
    silver_sales_daily,      \* silver.sales_daily, or NotBuilt, or the error raised
    fact_daily,              \* gold.fact_daily_store_product, likewise
    bronze_frames,           \* the per-customer bronze tables given to a merge node
    bronze_merged,           \* the merged table a merge node returned, or NotBuilt
    clock,                   \* wall clock (pd.Timestamp.utcnow())
    raw_mappings,            \* the raw mapping tables of one entity (m1, m2, m3)
    mapping_unified,         \* what the mapping union returned, or NotBuilt
    raw_source,              \* a normalizer and the raw input it is given
    bronze_normalized,       \* what the normalizer returned, or NotBuilt
    dim_store,               \* gold.dim_store
    view_features_ml_daily,  \* views.features_ml_daily, or NotBuilt
    view_app_daily,          \* views.app_view_daily, or NotBuilt
    silver_products,         \* silver.products, in table order
    silver_stores,           \* silver.stores, in table order
    nodes_run,               \* the nodes of the declared graph that have run
    raw_payload,             \* a normalizer and the raw rows it is given
    bronze_rows              \* the rows the normalizer returned, or NotBuilt

\* the datasets of the bronze merge nodes
merge_vars == <<bronze_frames, bronze_merged, clock>>

\* the datasets of the mapping unions
union_vars == <<raw_mappings, mapping_unified>>

\* the datasets of the source normalizers
normalize_vars == <<raw_source, bronze_normalized>>

\* the datasets of the view nodes
view_vars == <<dim_store, view_features_ml_daily, view_app_daily>>

\* the inputs of the dimension builders
dims_vars == <<silver_products, silver_stores>>

\* the rows of the source normalizers
rows_vars == <<raw_payload, bronze_rows>>

\* the dimension builders, the node graph and the rows of the normalizers
rest_vars == <<dims_vars, nodes_run, rows_vars>>

\* the datasets outside the fact pipeline
other_vars == <<merge_vars, union_vars, normalize_vars, view_vars, rest_vars>>

vars == <<bronze_sales_all, bronze_deliveries_all, map_delivery2sales,
          delivery_to_sales_map, mapping_product_union, mapping_store_union,
          dim_product, silver_sales_daily, fact_daily, other_vars>>

inputs == <<bronze_sales_all, bronze_deliveries_all, map_delivery2sales,
            delivery_to_sales_map, mapping_product_union, mapping_store_union,
            dim_product>>

\* the datasets of the fact pipeline
pipeline_vars == <<inputs, silver_sales_daily, fact_daily>>

\* ------------------------------------------------- build_silver_sales_daily
keys_raw(r) ==
    [_customer_id |-> r._customer_id, number_store |-> r.number_store,
     number_product |-> r.number_product, target_date |-> r.target_date]

\* groupby(keys_raw)["sales_qty"].sum()
s_agg(sales) ==
    { [key |-> k,
       sales_qty |-> SumQ({ [row |-> r, q |-> r.sales_qty] :
                            r \in { x \in sales : keys_raw(x) = k } })] :
      k \in { keys_raw(r) : r \in sales } }

\* the rows of the adjustment mapping a delivery row joins to
\* (left_on (_customer_id, number_product), right_on
\*  (_customer_id, number_product_delivery))
MatchesOf(r, m) ==
    { x \in m : /\ x._customer_id = r._customer_id
                /\ x.number_product_delivery = r.number_product }

\* validate="m:1": the right side must be unique on the join key
RightKeysUnique(m) ==
    \A x, y \in m :
        (x._customer_id = y._customer_id
         /\ x.number_product_delivery = y.number_product_delivery) => x = y

\* number_product_adj: the mapped sales product where the row matched
number_product_adj(r, m) ==
    IF MatchesOf(r, m) = {} THEN r.number_product
    ELSE (CHOOSE x \in MatchesOf(r, m) : TRUE).number_product_sales

\* delivery_qty_adj with the factor left out (re-keyed, quantity not converted)
delivery_qty_adj_without_factor(r, m) == r.delivery_qty

\* delivery_qty_adj: delivery_qty * factor.fillna(1.0)
delivery_qty_adj(r, m) ==
    IF MatchesOf(r, m) = {} THEN r.delivery_qty
    ELSE r.delivery_qty * (CHOOSE x \in MatchesOf(r, m) : TRUE).factor

\* the key a delivery row is aggregated under
AdjustedKey(r, m) ==
    [_customer_id |-> r._customer_id, number_store |-> r.number_store,
     number_product |-> number_product_adj(r, m), target_date |-> r.target_date]

\* groupby on the adjusted product, summing delivery_qty_adj
d_agg(deliveries, m) ==
    { [key |-> k,
       delivery_qty |-> SumQ({ [row |-> r, q |-> delivery_qty_adj(r, m)] :
                               r \in { x \in deliveries : AdjustedKey(x, m) = k } })] :
      k \in { AdjustedKey(r, m) : r \in deliveries } }

\* s_agg.merge(d_agg, on=keys_raw, how="outer"), missing measures 0.0,
\* return_qty = 0.0
OuterJoin(sa, da) ==
    { [_customer_id |-> k._customer_id, number_store |-> k.number_store,
       number_product |-> k.number_product, target_date |-> k.target_date,
       sales_qty |-> IF \E x \in sa : x.key = k
                     THEN (CHOOSE x \in sa : x.key = k).sales_qty ELSE 0,
       delivery_qty |-> IF \E x \in da : x.key = k
                        THEN (CHOOSE x \in da : x.key = k).delivery_qty ELSE 0,
       return_qty |-> 0] :
      k \in { x.key : x \in sa } \cup { x.key : x \in da } }

\* the rows of one (_customer_id, number_store, number_product) group
GroupOf(fact, r) ==
    { x \in fact : /\ x._customer_id = r._customer_id
                   /\ x.number_store = r.number_store
                   /\ x.number_product = r.number_product }

\* net.cumsum() at row r of group g, rows in date order
cumsum_net(g, r) ==
    SumQ({ [row |-> x, q |-> x.delivery_qty + x.return_qty - x.sales_qty] :
           x \in { y \in g : y.target_date <= r.target_date } })

\* rb = rb.where(rb > 0, 0.0)
rb(g, r) == IF cumsum_net(g, r) > 0 THEN cumsum_net(g, r) ELSE 0

IsFirstRow(g, r) == \A x \in g : x.target_date >= r.target_date

\* the row before r in date order
PrevRow(g, r) ==
    CHOOSE x \in g : /\ x.target_date < r.target_date
                     /\ \A y \in g : y.target_date < r.target_date
                                        => y.target_date <= x.target_date

\* rb.shift(1).fillna(0.0)
prev_rb(g, r) == IF IsFirstRow(g, r) THEN 0 ELSE rb(g, PrevRow(g, r))

\* compute_stockout without the first-day override (st.iloc[0] = False left out)
compute_stockout_first_day_not_forced(g, r) ==
    prev_rb(g, r) = 0 /\ r.sales_qty > 0

\* st = (prev_rb == 0) & (sales_qty > 0), st.iloc[0] = False
compute_stockout(g, r) ==
    IF IsFirstRow(g, r) THEN FALSE
    ELSE prev_rb(g, r) = 0 /\ r.sales_qty > 0

\* drop_duplicates(subset=key, keep="last") of a mapping table: the row at i
\* stays iff no later row has its key
DropDuplicatesKeepLast(tbl, numcol) ==
    { tbl[i] : i \in { j \in 1 .. Len(tbl) :
                         \A k \in (j + 1) .. Len(tbl) :
                             ~ (/\ tbl[k]._customer_id = tbl[j]._customer_id
                                /\ tbl[k][numcol] = tbl[j][numcol]) } }

\* fact.merge(pmap, on=(_customer_id, number_product), how="left"): the id, or NA
LookupId(map, idcol, numcol, cust, num) ==
    IF \E x \in map : x._customer_id = cust /\ x[numcol] = num
    THEN (CHOOSE x \in map : x._customer_id = cust /\ x[numcol] = num)[idcol]
    ELSE NA

pmap(mpu) == DropDuplicatesKeepLast(mpu, "number_product")
smap(msu) == DropDuplicatesKeepLast(msu, "number_store")

\* SilverRows with the two steps swapped: ids mapped first, stockout computed on
\* the (id_store, id_product) groups
SilverRows_stockout_after_mapping(fact, mpu, msu) ==
    LET IdP(r) == LookupId(pmap(mpu), "id_product", "number_product",
                           r._customer_id, r.number_product)
        IdS(r) == LookupId(smap(msu), "id_store", "number_store",
                           r._customer_id, r.number_store)
    IN  { [id_product |-> IdP(r),
           id_store |-> IdS(r),
           target_date |-> r.target_date,
           sales_qty |-> r.sales_qty,
           return_qty |-> r.return_qty,
           delivery_qty |-> r.delivery_qty,
           stockout |-> compute_stockout(
                            { x \in fact : IdP(x) = IdP(r) /\ IdS(x) = IdS(r) }, r),
           _customer_id |-> r._customer_id,
           number_product |-> r.number_product,
           number_store |-> r.number_store] : r \in fact }

\* stockout on the raw keys, then the surrogate ids
SilverRows(fact, mpu, msu) ==
    { [id_product |-> LookupId(pmap(mpu), "id_product", "number_product",
                               r._customer_id, r.number_product),
       id_store |-> LookupId(smap(msu), "id_store", "number_store",
                             r._customer_id, r.number_store),
       target_date |-> r.target_date,
       sales_qty |-> r.sales_qty,
       return_qty |-> r.return_qty,
       delivery_qty |-> r.delivery_qty,
       stockout |-> compute_stockout(GroupOf(fact, r), r),
       _customer_id |-> r._customer_id,
       number_product |-> r.number_product,
       number_store |-> r.number_store] : r \in fact }

build_silver_sales_daily(sales, deliveries, m, mpu, msu) ==
    IF deliveries = {}
    THEN \* d_agg is assigned only in the non-empty branch; line 355 reads it
         [status |-> "error", error |-> "UnboundLocalError"]
    ELSE IF m # {} /\ ~ RightKeysUnique(m)
    THEN [status |-> "error", error |-> "MergeError"]
    ELSE [status |-> "ok",
          rows |-> SilverRows(OuterJoin(s_agg(sales), d_agg(deliveries, m)),
                              mpu, msu)]

\* ------------------------------------------------------------ gold fact
\* merge with dim_product[["id_product","price_current"]] on id_product,
\* how="left" (a missing id joins the dimension's missing id, as pandas does)
PriceOf(dim, id) ==
    IF \E x \in dim : x.id_product = id
    THEN (CHOOSE x \in dim : x.id_product = id).price_current
    ELSE NA

\* validate="m:1" of the price joins
DimKeysUnique(dim) == \A x, y \in dim : x.id_product = y.id_product => x = y

\* base: the silver fact with price, projected to the gold columns
BaseRow(r, dim) ==
    [id_product |-> r.id_product, id_store |-> r.id_store,
     target_date |-> r.target_date, sales_qty |-> r.sales_qty,
     return_qty |-> r.return_qty, delivery_qty |-> r.delivery_qty,
     stockout |-> r.stockout, price |-> PriceOf(dim, r.id_product)]

Base(silver_rows, dim) ==
    [y \in { BaseRow(r, dim) : r \in silver_rows } |->
        Cardinality({ r \in silver_rows : BaseRow(r, dim) = y })]

\* dlv: the bronze deliveries of mapped pack SKUs (inner join), with the pack
\* product's and the store's own surrogate ids
Dlv(deliveries, m, mpu, msu) ==
    { [row |-> r,
       id_product |-> LookupId(pmap(mpu), "id_product", "number_product",
                               r._customer_id, r.number_product),
       id_store |-> LookupId(smap(msu), "id_store", "number_store",
                             r._customer_id, r.number_store),
       target_date |-> r.target_date,
       q |-> r.delivery_qty] : r \in { x \in deliveries : MatchesOf(x, m) # {} } }

\* groupby([id_store, id_product, target_date], dropna=False) delivery_qty sum,
\* pack price attached, sales_qty = return_qty = 0, stockout = False
Extras(deliveries, m, mpu, msu, dim) ==
    LET dlv == Dlv(deliveries, m, mpu, msu) IN
    { [id_product |-> k[2], id_store |-> k[1], target_date |-> k[3],
       sales_qty |-> 0, return_qty |-> 0,
       delivery_qty |-> SumQ({ x \in dlv : /\ x.id_store = k[1]
                                           /\ x.id_product = k[2]
                                           /\ x.target_date = k[3] }),
       stockout |-> FALSE, price |-> PriceOf(dim, k[2])] :
      k \in { <<x.id_store, x.id_product, x.target_date>> : x \in dlv } }

\* --- _dense_calendar
PairRows(rows, s, p) == { x \in rows : x.id_store = s /\ x.id_product = p }

\* price.ffill().bfill() at day d of a pair's date spine: the price of the
\* nearest day at or before d that has one, else of the nearest day after d
FillPrice(g, d) ==
    LET priced == { x \in g : x.price # NA }
        before == { x \in priced : x.target_date <= d }
        after == { x \in priced : x.target_date > d }
    IN  IF before # {}
        THEN (CHOOSE x \in before :
                 \A y \in before : y.target_date <= x.target_date).price
        ELSE IF after # {}
        THEN (CHOOSE x \in after :
                 \A y \in after : y.target_date >= x.target_date).price
        ELSE NA

\* GapRows with no date spine (only the observed dates are kept)
GapRows_no_spine(g, s, p) == {}

\* GapRows with stockout left unfilled (NaN.astype(bool) is True)
GapRows_stockout_not_filled(g, s, p) ==
    LET seen == { x.target_date : x \in g } IN
    { [id_product |-> p, id_store |-> s, target_date |-> d,
       sales_qty |-> 0, return_qty |-> 0, delivery_qty |-> 0,
       stockout |-> TRUE, price |-> FillPrice(g, d)] :
      d \in (MinOf(seen) .. MaxOf(seen)) \ seen }

\* the rows the date spine adds to pair (s, p): one per day of
\* date_range(min, max) without an observed row
GapRows(g, s, p) ==
    LET seen == { x.target_date : x \in g } IN
    { [id_product |-> p, id_store |-> s, target_date |-> d,
       sales_qty |-> 0, return_qty |-> 0, delivery_qty |-> 0,
       stockout |-> FALSE, price |-> FillPrice(g, d)] :
      d \in (MinOf(seen) .. MaxOf(seen)) \ seen }

\* an observed row on the spine: measures and stockout as they are, a missing
\* price filled
FilledRow(rows, r) ==
    IF r.price # NA THEN r
    ELSE [r EXCEPT !.price =
              FillPrice(PairRows(rows, r.id_store, r.id_product), r.target_date)]

\* the observed rows of frame df on their spines, as many times as df has them
FilledRows(df, rows) ==
    [y \in { FilledRow(rows, r) : r \in DOMAIN df } |->
        SumQ({ [row |-> r, q |-> df[r]] :
               r \in { z \in DOMAIN df : FilledRow(rows, z) = y } })]

\* the calendar with one row kept per day of a pair (the pair's rows made
\* unique on target_date before the merge with the spine)
dense_calendar_one_row_per_day(df) ==
    LET rows == BagToSet(df)
        pairs == { <<x.id_store, x.id_product>> : x \in rows }
        gaps == UNION { GapRows(PairRows(rows, k[1], k[2]), k[1], k[2]) : k \in pairs }
        first(r) == CHOOSE x \in PairRows(rows, r.id_store, r.id_product) :
                        x.target_date = r.target_date
        kept == { r \in rows : r = first(r) }
    IN  IF rows = {} THEN df
        ELSE FilledRows([r \in kept |-> 1], rows) (+) SetToBag(gaps)

dense_calendar(df) ==
    LET rows == BagToSet(df)
        pairs == { <<x.id_store, x.id_product>> : x \in rows }
        gaps == UNION { GapRows(PairRows(rows, k[1], k[2]), k[1], k[2]) : k \in pairs }
    IN  IF rows = {} THEN df
        ELSE FilledRows(df, rows) (+) SetToBag(gaps)

\* build_fact_daily_store_product with the calendar filled before the union
\* (extras appended to the dense base as they are)
build_fact_extras_not_filled(silver_rows, dim, deliveries, mpu, msu, m) ==
    IF ~ DimKeysUnique(dim) /\ (silver_rows # {} \/ (deliveries # {} /\ m # {}))
    THEN [status |-> "error", error |-> "MergeError"]
    ELSE IF deliveries # {} /\ m # {} /\ ~ RightKeysUnique(m)
    THEN [status |-> "error", error |-> "MergeError"]
    ELSE [status |-> "ok",
          rows |-> dense_calendar(Base(silver_rows, dim))
                   (+) SetToBag(IF deliveries # {} /\ m # {}
                                THEN Extras(deliveries, m, mpu, msu, dim)
                                ELSE {})]

\* pd.concat([base] + extras) then _dense_calendar
build_fact_daily_store_product(silver_rows, dim, deliveries, mpu, msu, m) ==
    IF ~ DimKeysUnique(dim) /\ (silver_rows # {} \/ (deliveries # {} /\ m # {}))
    THEN [status |-> "error", error |-> "MergeError"]
    ELSE IF deliveries # {} /\ m # {} /\ ~ RightKeysUnique(m)
    THEN [status |-> "error", error |-> "MergeError"]
    ELSE [status |-> "ok",
          rows |-> dense_calendar(
                       Base(silver_rows, dim)
                       (+) SetToBag(IF deliveries # {} /\ m # {}
                                    THEN Extras(deliveries, m, mpu, msu, dim)
                                    ELSE {}))]

\* ------------------------------------------------ concat_frames_with_meta
\* A cell is a missing value, a text, an integer, a float or a date, written
\* by its text form; a row is a function from column names to cells; a frame
\* is None or a table of rows over its columns.
NaCell == [t |-> "na", v |-> ""]
StrVal(s) == [t |-> "str", v |-> s]
IntVal(s) == [t |-> "int", v |-> s]
NumVal(s) == [t |-> "num", v |-> s]
DateVal(s) == [t |-> "date", v |-> s]

NoFrame == [none |-> TRUE, cols |-> {}, rows |-> <<>>]

SeqsUpTo(S, n) == UNION { [1 .. k -> S] : k \in 0 .. n }
Range(s) == { s[i] : i \in DOMAIN s }

\* rows of a per-customer bronze sales table; the store number arrives as an
\* integer or as a text
SalesFrameRows ==
    { [target_date |-> StrVal("2025-08-10"), number_store |-> k[1],
       number_product |-> StrVal("72"), sales_qty |-> NumVal("5.0"),
       _customer_id |-> StrVal(k[2])] :
      k \in { <<IntVal("2"), "1001">>, <<StrVal("2"), "1001">>,
              <<StrVal("2"), "1002">> } }

\* rows of a per-customer bronze deliveries table
DeliveryFrameRows ==
    { [target_date |-> StrVal("2025-08-10"), number_store |-> StrVal(s),
       number_product |-> StrVal("72"), delivery_qty |-> NumVal("3.0"),
       _customer_id |-> StrVal("1001")] : s \in {"2", "3"} }

FrameOf(rowset, q) ==
    [none |-> FALSE, cols |-> UNION { DOMAIN r : r \in rowset }, rows |-> q]

Frames ==
    {NoFrame}
    \cup { FrameOf(SalesFrameRows, q) : q \in SeqsUpTo(SalesFrameRows, MaxFrameRows) }
    \cup { FrameOf(DeliveryFrameRows, q) :
           q \in SeqsUpTo(DeliveryFrameRows, MaxFrameRows) }

\* pd.concat aligns the rows on the union of the columns
Reindex(r, cols) == [c \in cols |-> IF c \in DOMAIN r THEN r[c] ELSE NaCell]

RECURSIVE ConcatRows(_, _)
ConcatRows(frames, cols) ==
    IF frames = <<>> THEN <<>>
    ELSE [i \in DOMAIN Head(frames).rows |-> Reindex(Head(frames).rows[i], cols)]
         \o ConcatRows(Tail(frames), cols)

\* drop_duplicates on the key columns only
drop_duplicates_on_keys(rows) ==
    LET key(r) == <<r["target_date"], r["number_store"], r["number_product"],
                    r["_customer_id"]>>
    IN  SelectSeq(rows, LAMBDA r : r = CHOOSE x \in Range(rows) : key(x) = key(r))

\* DataFrame.drop_duplicates(): of rows equal in every column the first stays
RECURSIVE drop_duplicates(_)
drop_duplicates(rows) ==
    IF rows = <<>> THEN <<>>
    ELSE LET front == drop_duplicates(SubSeq(rows, 1, Len(rows) - 1))
             last == rows[Len(rows)]
         IN  IF \E i \in DOMAIN front : front[i] = last THEN front
             ELSE Append(front, last)

StringCols == {"number_store", "number_product", "delivery_batch", "_customer_id",
               "_source_file"}
MeasureCols == {"sales_qty", "delivery_qty", "return_qty", "price", "moq"}

\* .astype("string")
astype_string(x) == IF x.t = "na" THEN NaCell ELSE StrVal(x.v)
\* pd.to_datetime(...).dt.normalize()
to_datetime(x) == IF x.t = "na" THEN NaCell ELSE DateVal(x.v)
\* pd.to_numeric (the measures of these tables are numbers already)
to_numeric(x) == IF x.t = "na" THEN NaCell ELSE NumVal(x.v)

canonical(c, x) ==
    IF c \in StringCols THEN astype_string(x)
    ELSE IF c = "target_date" THEN to_datetime(x)
    ELSE IF c \in MeasureCols THEN to_numeric(x)
    ELSE x

\* _pick_key_cols: the first rule whose columns are all there, else the
\* columns that are there of the first rule that has any
KeyRules ==
    << <<"target_date", "number_store", "number_product", "_customer_id">>,
       <<"number_product", "_customer_id">>,
       <<"number_store", "_customer_id">> >>

pick_key_cols(cols) ==
    LET full == { i \in DOMAIN KeyRules : Range(KeyRules[i]) \subseteq cols }
        part == { i \in DOMAIN KeyRules : Range(KeyRules[i]) \cap cols # {} }
    IN  IF full # {} THEN KeyRules[MinOf(full)]
        ELSE IF part # {}
             THEN SelectSeq(KeyRules[MinOf(part)], LAMBDA c : c \in cols)
        ELSE <<>>

\* .astype(str) of a key cell
astype_str(c, x) ==
    IF x.t = "na" THEN (IF c = "target_date" THEN "NaT" ELSE "<NA>") ELSE x.v

\* pd.util.hash_pandas_object(keys, index=False): the fingerprint of row i is
\* a function of the texts of its key cells (taken as collision-free here)
row_hash_with_index(r, key_cols, i) ==
    [t |-> "hash", v |-> <<i>> \o [k \in DOMAIN key_cols |->
                                       astype_str(key_cols[k], r[key_cols[k]])]]
row_hash(r, key_cols, i) ==
    [t |-> "hash", v |-> [k \in DOMAIN key_cols |->
                              astype_str(key_cols[k], r[key_cols[k]])]]

\* the clock read for row i, one per row
ingest_ts_per_row(now, i) == [t |-> "ts", v |-> now + i]
\* df["_ingest_ts"] = pd.Timestamp.utcnow(): one clock read for the table
ingest_ts(now, i) == [t |-> "ts", v |-> now]

concat_frames_with_meta(dfs, now) ==
    LET frames == SelectSeq(dfs, LAMBDA d : ~ d.none /\ d.rows # <<>>)
        cols == UNION { frames[i].cols : i \in DOMAIN frames }
        df == drop_duplicates(ConcatRows(frames, cols))
        key_cols == pick_key_cols(cols)
        typed(r) == [c \in cols |-> canonical(c, r[c])]
    IN  IF frames = <<>> THEN [status |-> "ok", cols |-> {}, rows |-> <<>>]
        ELSE [status |-> "ok",
              cols |-> cols \cup {"_ingest_ts"}
                       \cup (IF key_cols # <<>> THEN {"_row_hash"} ELSE {}),
              rows |-> [i \in DOMAIN df |->
                           typed(df[i])
                           @@ ("_ingest_ts" :> ingest_ts(now, i))
                           @@ (IF key_cols # <<>>
                               THEN ("_row_hash" :> row_hash(typed(df[i]), key_cols, i))
                               ELSE <<>>)]]

\* --------------------------------- union_mapping_product / union_mapping_store
\* A raw mapping cell is a number, a text (a sequence of characters) or
\* missing.
Num(n) == [t |-> "num", n |-> n, s |-> <<>>]
Text(s) == [t |-> "text", n |-> 0, s |-> s]
Missing == [t |-> "na", n |-> 0, s |-> <<>>]

Digits == <<"0", "1", "2", "3", "4", "5", "6", "7", "8", "9">>
IsDigit(c) == \E i \in DOMAIN Digits : Digits[i] = c
DigitValue(c) == (CHOOSE i \in DOMAIN Digits : Digits[i] = c) - 1

\* the number a digit string denotes
RECURSIVE ParseDigits(_)
ParseDigits(s) ==
    IF s = <<>> THEN 0
    ELSE 10 * ParseDigits(SubSeq(s, 1, Len(s) - 1)) + DigitValue(s[Len(s)])

\* str(n), the decimal string of a non-negative integer
RECURSIVE DecimalString(_)
DecimalString(n) ==
    IF n < 10 THEN <<Digits[n + 1]>>
    ELSE Append(DecimalString(n \div 10), Digits[(n % 10) + 1])

\* pd.to_numeric(..., errors="raise").astype("int64") accepts numbers and digit
\* strings; another text fails in to_numeric, a missing value in astype
Coercible(x) ==
    \/ x.t = "num"
    \/ x.t = "text" /\ x.s # <<>> /\ \A i \in DOMAIN x.s : IsDigit(x.s[i])
int64(x) == IF x.t = "num" THEN x.n ELSE ParseDigits(x.s)

\* the natural number as a text, formatting kept as it came
number_text_as_given(x) == IF x.t = "num" THEN DecimalString(x.n) ELSE x.s
\* pd.to_numeric(...).astype("int64").astype("string")
number_text(x) == DecimalString(int64(x))

\* .astype(str).str.slice(0, 4)
derive_customer_from_id(id) ==
    LET s == DecimalString(id) IN SubSeq(s, 1, IF Len(s) < 4 THEN Len(s) ELSE 4)

RECURSIVE ConcatTables(_)
ConcatTables(maps) ==
    IF maps = <<>> THEN <<>> ELSE Head(maps).rows \o ConcatTables(Tail(maps))

\* the union with rows that fail the coercion left out
union_mapping_dropping_bad_rows(tables, idcol, numcol) ==
    LET maps == SelectSeq(tables, LAMBDA m : ~ m.none /\ m.rows # <<>>)
        df == SelectSeq(drop_duplicates(ConcatTables(maps)),
                        LAMBDA r : Coercible(r[idcol]) /\ Coercible(r[numcol]))
        out(r) == (idcol :> int64(r[idcol]))
                  @@ (numcol :> number_text(r[numcol]))
                  @@ ("_customer_id" :> derive_customer_from_id(int64(r[idcol])))
    IN  [status |-> "ok", cols |-> {idcol, numcol, "_customer_id"},
         rows |-> drop_duplicates([i \in DOMAIN df |-> out(df[i])])]

\* union_mapping_product and union_mapping_store: the same code on the
\* columns (id_product, number_product) and (id_store, number_store)
union_mapping(tables, idcol, numcol) ==
    LET maps == SelectSeq(tables, LAMBDA m : ~ m.none /\ m.rows # <<>>)
        df == drop_duplicates(ConcatTables(maps))
        out(r) == (idcol :> int64(r[idcol]))
                  @@ (numcol :> number_text(r[numcol]))
                  @@ ("_customer_id" :> derive_customer_from_id(int64(r[idcol])))
    IN  IF maps = <<>>
        THEN [status |-> "ok", cols |-> {idcol, numcol, "_customer_id"}, rows |-> <<>>]
        ELSE IF \E i \in DOMAIN df : ~ Coercible(df[i][idcol])
        THEN [status |-> "error", error |-> "ValueError"]
        ELSE IF \E i \in DOMAIN df : ~ Coercible(df[i][numcol])
        THEN [status |-> "error", error |-> "ValueError"]
        ELSE [status |-> "ok", cols |-> {idcol, numcol, "_customer_id"},
              rows |-> drop_duplicates([i \in DOMAIN df |-> out(df[i])])]

union_mapping_product(m1, m2, m3) ==
    union_mapping(<<m1, m2, m3>>, "id_product", "number_product")
union_mapping_store(m1, m2, m3) ==
    union_mapping(<<m1, m2, m3>>, "id_store", "number_store")

\* raw mapping rows of an entity: two ids of customer 1001 and one of 1002
\* (given as a text), natural number 29 as a number and as "029", and rows
\* whose id or natural number is no number
IdColOf(entity) == IF entity = "product" THEN "id_product" ELSE "id_store"
NumColOf(entity) == IF entity = "product" THEN "number_product" ELSE "number_store"

RawMappingRows(entity) ==
    LET row(id, num) == (IdColOf(entity) :> id) @@ (NumColOf(entity) :> num)
        ids == {Num(10010002), Num(10010004),
                Text(<<"1", "0", "0", "2", "0", "0", "0", "1">>)}
        nums == {Num(29), Text(<<"0", "2", "9">>)}
    IN  { row(id, num) : id \in ids, num \in nums }
        \cup { row(Text(<<"x">>), Num(29)),
               row(Num(10010002), Text(<<"2", "x">>)),
               row(Num(10010002), Missing) }

NoTable == [none |-> TRUE, rows |-> <<>>]
\* the raw mapping tables of k rows (None or an empty table for k = 0)
RawMappingTables(entity, k) ==
    (IF k = 0 THEN {NoTable} ELSE {})
    \cup { [none |-> FALSE, rows |-> q] : q \in [1 .. k -> RawMappingRows(entity)] }

\* ------------------------------------------------------- source normalizers
\* bronze/nodes.py, one normalizer per source table.  A table is its column
\* set and one number per row: for a raw row the count of records nested in
\* it (1 for a flat CSV row, the length of the JSON array for a Galaxy row),
\* for a row of bronze.products_1003 / bronze.prices_1003 its product number.
\* A normalizer returns the column set and the row count of its result, or
\* the error it raised.
RawTable(cols, cells) == [none |-> FALSE, cols |-> cols, cells |-> cells]
NoRawTable == [none |-> TRUE, cols |-> {}, cells |-> <<>>]
\* pd.DataFrame()
EmptyDataFrame == RawTable({}, <<>>)
\* df.empty
empty(df) == df.cells = <<>> \/ df.cols = {}

RawNone == [kind |-> "None", table |-> NoRawTable, files |-> <<>>]
RawDataFrame(df) == [kind |-> "DataFrame", table |-> df, files |-> <<>>]
\* a mapping filename -> table; files[i] is the table under FileNames[i]
RawDict(files) == [kind |-> "dict", table |-> NoRawTable, files |-> files]
FileNames == <<"sales_2025-08-10.csv", "prices.json">>

Returned(cols, len) == [status |-> "ok", cols |-> cols, len |-> len]
Raised(error) == [status |-> "error", error |-> error]

RECURSIVE SumCells(_)
SumCells(cells) ==
    IF cells = <<>> THEN 0 ELSE Head(cells) + SumCells(Tail(cells))

\* pd.concat(parts, ignore_index=True) of the non-empty tables of a mapping,
\* each with the file name column added
RECURSIVE ConcatParts(_, _)
ConcatParts(files, filename_col) ==
    IF files = <<>> THEN EmptyDataFrame
    ELSE LET df == Head(files)
             rest == ConcatParts(Tail(files), filename_col)
         IN  IF df.none \/ empty(df) THEN rest
             ELSE RawTable(df.cols \cup {filename_col} \cup rest.cols,
                           df.cells \o rest.cells)

concat_incremental_with_source(raw) ==
    IF raw.kind = "None" THEN EmptyDataFrame
    ELSE IF raw.kind = "dict" THEN ConcatParts(raw.files, "_source_file")
    ELSE RawTable(raw.table.cols \cup {"_source_file"}, raw.table.cells)

\* df.rename(columns=...)
rename(cols, columns) ==
    { IF c \in DOMAIN columns THEN columns[c] ELSE c : c \in cols }

\* df[[...]]: the listed columns, KeyError when one of them is missing
select(cols, listed, len) ==
    IF listed \subseteq cols THEN Returned(listed, len) ELSE Raised("KeyError")

\* ingestion_config["erps"]["cosmos"]["columns"][...]: raw column -> bronze column
CosmosSalesColumns ==
    ("Datum" :> "target_date") @@ ("Kunde" :> "number_store")
    @@ ("Artikel" :> "number_product") @@ ("VK-Menge" :> "sales_qty")
CosmosDeliveriesColumns ==
    ("date" :> "target_date") @@ ("store" :> "number_store")
    @@ ("product" :> "number_product") @@ ("qty" :> "delivery_qty")
    @@ ("batch" :> "delivery_batch")
CosmosProductsColumns ==
    ("product" :> "number_product") @@ ("name" :> "product_name")
    @@ ("group" :> "product_group") @@ ("price" :> "price") @@ ("moq" :> "moq")
CosmosStoresColumns ==
    ("store" :> "number_store") @@ ("name" :> "store_name")
    @@ ("street" :> "street") @@ ("postal_code" :> "postal_code")
    @@ ("city" :> "city") @@ ("country" :> "country") @@ ("state" :> "state")

normalize_cosmos_sales_bronze(raw_sales) ==
    LET df == concat_incremental_with_source(raw_sales)
        cols == rename(df.cols, CosmosSalesColumns) \cup {"_customer_id", "_source_file"}
    IN  IF empty(df)
        THEN Returned({"target_date", "number_store", "number_product",
                       "sales_qty", "_customer_id", "_source_file"}, 0)
        ELSE select(cols, {"target_date", "number_store", "number_product",
                           "sales_qty", "_customer_id", "_source_file"},
                    Len(df.cells))

normalize_cosmos_deliveries_bronze(raw_deliveries) ==
    LET df == concat_incremental_with_source(raw_deliveries)
        cols == rename(df.cols, CosmosDeliveriesColumns) \cup {"_customer_id"}
    IN  IF empty(df)
        THEN Returned({"target_date", "number_store", "number_product",
                       "delivery_qty", "delivery_batch", "_customer_id"}, 0)
        ELSE select(cols, {"target_date", "number_store", "number_product",
                           "delivery_qty", "delivery_batch", "_customer_id"},
                    Len(df.cells))

normalize_cosmos_products_bronze(raw_products) ==
    LET df == concat_incremental_with_source(raw_products)
        cols == rename(df.cols, CosmosProductsColumns) \cup {"_customer_id"}
    IN  IF empty(df)
        THEN Returned({"number_product", "product_name", "product_group",
                       "price", "moq", "_customer_id"}, 0)
        ELSE select(cols, {"number_product", "product_name", "product_group",
                           "price", "moq", "_customer_id"},
                    Len(df.cells))

normalize_cosmos_stores_bronze(raw_stores) ==
    LET df == concat_incremental_with_source(raw_stores)
        cols == rename(df.cols, CosmosStoresColumns)
                    \cup {"_customer_id", "store_address"}
    IN  IF empty(df)
        THEN Returned({"number_store", "store_name", "street", "postal_code",
                       "city", "country", "state", "store_address",
                       "_customer_id"}, 0)
        ELSE select(cols, {"number_store", "store_name", "street", "postal_code",
                           "city", "country", "state", "store_address",
                           "_customer_id"},
                    Len(df.cells))

\* Accepts a mapping or a table: anything that is not a mapping is copied.
flatten_galaxy_deliveries_sales_bronze(raw_deliv_sales) ==
    IF raw_deliv_sales.kind = "None" THEN Raised("AttributeError")
    ELSE LET df0 == IF raw_deliv_sales.kind = "dict"
                    THEN ConcatParts(raw_deliv_sales.files, "_source_file")
                    ELSE raw_deliv_sales.table
         IN  IF empty(df0)
             THEN Returned({"target_date", "number_store", "number_product",
                            "sales_qty", "delivery_qty", "delivery_batch",
                            "_customer_id", "_source_file"}, 0)
             ELSE IF "Filiale" \notin df0.cols THEN Raised("KeyError")
             ELSE Returned({"target_date", "number_store", "number_product",
                            "sales_qty", "delivery_qty", "delivery_batch",
                            "_customer_id", "_source_file"},
                           SumCells(df0.cells))

\* The three Galaxy normalizers below unwrap one JSON array per row and raise
\* KeyError when no record could be extracted.
normalize_galaxy_prices_bronze_daily(raw_prices) ==
    LET df0 == concat_incremental_with_source(raw_prices)
        items == IF "Verkaufspreise" \in df0.cols THEN SumCells(df0.cells) ELSE 0
    IN  IF empty(df0)
        THEN Returned({"target_date", "number_product", "price", "_customer_id"}, 0)
        ELSE IF items = 0 THEN Raised("KeyError")
        ELSE Returned({"target_date", "number_product", "price", "_customer_id"},
                      items)

normalize_galaxy_products_bronze(raw_products) ==
    LET df0 == concat_incremental_with_source(raw_products)
        items == IF "Artikel" \in df0.cols THEN SumCells(df0.cells) ELSE 0
    IN  IF empty(df0)
        THEN Returned({"number_product", "product_name", "product_group",
                       "moq", "_customer_id"}, 0)
        ELSE IF items = 0 THEN Raised("KeyError")
        ELSE Returned({"number_product", "product_name", "product_group",
                       "moq", "_customer_id"}, items)

parse_galaxy_stores_bronze(raw_stores) ==
    LET df0 == concat_incremental_with_source(raw_stores)
        items == IF "Filialliste" \in df0.cols THEN SumCells(df0.cells) ELSE 0
    IN  IF empty(df0)
        THEN Returned({"number_store", "store_name", "street", "postal_code",
                       "city", "country", "state", "store_address",
                       "_customer_id"}, 0)
        ELSE IF items = 0 THEN Raised("KeyError")
        ELSE Returned({"number_store", "store_name", "street", "postal_code",
                       "city", "country", "state", "store_address",
                       "_customer_id"}, items)

\* left merge of the products with the prices, validate="m:1"
enrich_galaxy_products_with_prices_bronze(products_1003, prices_1003) ==
    LET p == products_1003.table
        pr == prices_1003.table
        unique == \A i, j \in DOMAIN pr.cells : pr.cells[i] = pr.cells[j] => i = j
    IN  IF products_1003.kind = "None" \/ empty(p)
        THEN Returned({"number_product", "product_name", "product_group",
                       "price", "moq", "_customer_id"}, 0)
        ELSE IF prices_1003.kind = "None" \/ empty(pr)
        THEN select(p.cols \cup {"price"},
                    {"number_product", "product_name", "product_group",
                     "price", "moq", "_customer_id"}, Len(p.cells))
        ELSE IF ~ ({"number_product", "_customer_id", "price"} \subseteq pr.cols)
        THEN Raised("KeyError")
        ELSE IF ~ unique THEN Raised("MergeError")
        ELSE select(p.cols \cup {"price"},
                    {"number_product", "product_name", "product_group",
                     "price", "moq", "_customer_id"}, Len(p.cells))

Normalizers ==
    { "normalize_cosmos_sales_bronze", "normalize_cosmos_deliveries_bronze",
      "normalize_cosmos_products_bronze", "normalize_cosmos_stores_bronze",
      "flatten_galaxy_deliveries_sales_bronze",
      "normalize_galaxy_prices_bronze_daily", "normalize_galaxy_products_bronze",
      "parse_galaxy_stores_bronze", "enrich_galaxy_products_with_prices_bronze" }

\* the columns of a raw table of each source
RawCols(normalizer) ==
    CASE normalizer = "normalize_cosmos_sales_bronze" -> DOMAIN CosmosSalesColumns
      [] normalizer = "normalize_cosmos_deliveries_bronze" -> DOMAIN CosmosDeliveriesColumns
      [] normalizer = "normalize_cosmos_products_bronze" -> DOMAIN CosmosProductsColumns
      [] normalizer = "normalize_cosmos_stores_bronze" -> DOMAIN CosmosStoresColumns
      [] normalizer = "flatten_galaxy_deliveries_sales_bronze" -> {"Filiale"}
      [] normalizer = "normalize_galaxy_prices_bronze_daily" -> {"Verkaufspreise"}
      [] normalizer = "normalize_galaxy_products_bronze" -> {"Artikel"}
      [] normalizer = "parse_galaxy_stores_bronze" -> {"Filialliste"}
      [] normalizer = "enrich_galaxy_products_with_prices_bronze" ->
            {"number_product", "product_name", "product_group", "moq", "_customer_id"}

PricesCols == {"target_date", "number_product", "price", "_customer_id"}

\* what one row of a raw table of each source holds
RawCells(normalizer) ==
    CASE normalizer \in { "normalize_cosmos_sales_bronze",
                          "normalize_cosmos_deliveries_bronze",
                          "normalize_cosmos_products_bronze",
                          "normalize_cosmos_stores_bronze" } -> {1}
      [] normalizer = "flatten_galaxy_deliveries_sales_bronze" -> 1 .. MaxItems
      [] normalizer = "enrich_galaxy_products_with_prices_bronze" -> 1 .. MaxItems
      [] OTHER -> 0 .. MaxItems

\* the tables a source delivers: header only, or up to MaxRawRows rows
TablesOf(cols, cells) ==
    { RawTable(cols, q) : q \in SeqsUpTo(cells, MaxRawRows) }

\* what a normalizer may be given: None, one table, or a mapping from file
\* names to tables (a table of the mapping may be None or pd.DataFrame())
RawInputs(normalizer) ==
    LET tables == TablesOf(RawCols(normalizer), RawCells(normalizer))
                      \cup {EmptyDataFrame}
    IN  {RawNone}
        \cup { RawDataFrame(df) : df \in tables }
        \cup { RawDict(files) :
                 files \in SeqsUpTo(tables \cup {NoRawTable}, Len(FileNames)) }

\* bronze.products_1003 and bronze.prices_1003 as the enrichment is given them
EnrichInputs(cols) ==
    {RawNone} \cup { RawDataFrame(df) :
                       df \in TablesOf(cols, 1 .. MaxItems) \cup {EmptyDataFrame} }

NoSource == [normalizer |-> "none", raw |-> RawNone, prices |-> RawNone]

\* ------------------------------------------------------------------- views
\* The views are bags of rows, as the gold fact is.
\* df["stockout"].astype(bool) of a boolean column
astype_bool(x) == (x = TRUE)

\* fact[["id_product","id_store","target_date","sales_qty","stockout"]]
FeaturesRow(r) ==
    [id_product |-> r.id_product, id_store |-> r.id_store,
     target_date |-> r.target_date, sales_qty |-> r.sales_qty,
     stockout |-> astype_bool(r.stockout)]

build_view_features_ml_daily(fact) ==
    [status |-> "ok",
     rows |-> [y \in { FeaturesRow(r) : r \in DOMAIN fact } |->
                  SumQ({ [row |-> r, q |-> fact[r]] :
                         r \in { z \in DOMAIN fact : FeaturesRow(z) = y } })]]

DimStoreKeysUnique(dim) == \A x, y \in dim : x.id_store = y.id_store => x = y

\* merge with dim_product[["id_product","product_name","number_product","moq"]]
\* on id_product, how="left" (a missing id joins the dimension's missing id)
ProductAttributes(dim, id) ==
    IF \E x \in dim : x.id_product = id
    THEN LET x == CHOOSE x \in dim : x.id_product = id
         IN  [product_name |-> x.product_name,
              number_product |-> x.number_product, moq |-> x.moq]
    ELSE [product_name |-> NA, number_product |-> NA, moq |-> NA]

\* merge with dim_store[["id_store","number_store","store_name","store_address"]]
\* on id_store, how="left"
StoreAttributes(dim, id) ==
    IF \E x \in dim : x.id_store = id
    THEN LET x == CHOOSE x \in dim : x.id_store = id
         IN  [number_store |-> x.number_store, store_name |-> x.store_name,
              store_address |-> x.store_address]
    ELSE [number_store |-> NA, store_name |-> NA, store_address |-> NA]

AppRow(r, dim_p, dim_s) ==
    [r EXCEPT !.stockout = astype_bool(r.stockout)]
    @@ ProductAttributes(dim_p, r.id_product)
    @@ StoreAttributes(dim_s, r.id_store)

\* build_view_app_daily with how="inner" in both merges: the fact rows
\* without a match in a dimension are dropped
build_view_app_daily_inner_join(fact, dim_p, dim_s) ==
    LET kept == { r \in DOMAIN fact :
                    /\ \E x \in dim_p : x.id_product = r.id_product
                    /\ \E x \in dim_s : x.id_store = r.id_store }
    IN  IF fact = EmptyBag THEN [status |-> "ok", rows |-> EmptyBag]
        ELSE IF ~ DimKeysUnique(dim_p) \/ ~ DimStoreKeysUnique(dim_s)
        THEN [status |-> "error", error |-> "MergeError"]
        ELSE [status |-> "ok",
              rows |-> [y \in { AppRow(r, dim_p, dim_s) : r \in kept } |->
                           SumQ({ [row |-> r, q |-> fact[r]] :
                                  r \in { z \in kept :
                                            AppRow(z, dim_p, dim_s) = y } })]]

build_view_app_daily(fact, dim_p, dim_s) ==
    IF fact = EmptyBag THEN [status |-> "ok", rows |-> EmptyBag]
    ELSE IF ~ DimKeysUnique(dim_p) \/ ~ DimStoreKeysUnique(dim_s)
    THEN [status |-> "error", error |-> "MergeError"]
    ELSE [status |-> "ok",
          rows |-> [y \in { AppRow(r, dim_p, dim_s) : r \in DOMAIN fact } |->
                       SumQ({ [row |-> r, q |-> fact[r]] :
                              r \in { z \in DOMAIN fact :
                                        AppRow(z, dim_p, dim_s) = y } })]]

\* ----------------------------------------------------- dimension builders
\* silver.products / silver.stores rows, in table order: one version of a
\* product or store per row (the name tells the versions apart)
SilverProductRows ==
    { [id_product |-> id, number_product |-> "72", product_name |-> name,
       moq |-> "0", price |-> "1.35", _ingest_ts |-> ts] :
      id \in {"10010002", "10010003", NA},
      name \in {"Kuerbisbroetchen", "Brezel"}, ts \in 0 .. MaxClock }
SilverStoreRows ==
    { [id_store |-> id, number_store |-> "2", store_name |-> name,
       store_address |-> "Kosmonautengasse 1 - 13353 - Glitzerstadt",
       _ingest_ts |-> ts] :
      id \in {"100190001", "100190002", NA},
      name \in {"Filiale Hochbetrieb", "Filiale Neu"}, ts \in 0 .. MaxClock }

\* drop_duplicates(subset=[idcol], keep="last") in table order, without the
\* sort before it
KeepLastOfTable(df, idcol) ==
    { i \in DOMAIN df : \A j \in DOMAIN df : df[j][idcol] = df[i][idcol] => j <= i }

\* sort_values([idcol, "_ingest_ts"]) then drop_duplicates(subset=[idcol],
\* keep="last"): the positions kept.  The sort is stable, so among the rows of
\* one id the last is the one with the greatest timestamp and, among those,
\* the one latest in the table.
KeepLastOfSorted(df, idcol) ==
    { i \in DOMAIN df :
        \A j \in DOMAIN df :
            df[j][idcol] = df[i][idcol] =>
                \/ df[j]._ingest_ts < df[i]._ingest_ts
                \/ df[j]._ingest_ts = df[i]._ingest_ts /\ j <= i }

DimProductRow(r) ==
    [id_product |-> r.id_product, number_product |-> r.number_product,
     product_name |-> r.product_name, moq |-> r.moq, price_current |-> r.price]

DimStoreRow(r) ==
    [id_store |-> r.id_store, number_store |-> r.number_store,
     store_name |-> r.store_name, store_address |-> r.store_address]

\* build_dim_product without the sort by _ingest_ts
build_dim_product_unsorted(silver) ==
    { DimProductRow(silver[i]) : i \in KeepLastOfTable(silver, "id_product") }

build_dim_product(silver) ==
    { DimProductRow(silver[i]) : i \in KeepLastOfSorted(silver, "id_product") }

build_dim_store(silver) ==
    { DimStoreRow(silver[i]) : i \in KeepLastOfSorted(silver, "id_store") }

\* --------------------------------------------------------------- node graph
\* The nodes the pipelines declare (bronze merges, silver, gold), each with the
\* datasets it reads and the dataset it writes.
Node(name, tier, ins, out) ==
    [name |-> name, tier |-> tier, inputs |-> ins, output |-> out]

BronzeMergeNodes ==
    { Node("merge_bronze_sales_all", "bronze",
           {"bronze.sales_1001", "bronze.sales_1002", "bronze.deliveries_sales_1003"},
           "bronze.sales_all"),
      Node("merge_bronze_deliveries_all", "bronze",
           {"bronze.deliveries_1001", "bronze.deliveries_1002",
            "bronze.deliveries_sales_1003"},
           "bronze.deliveries_all"),
      Node("merge_bronze_products_all", "bronze",
           {"bronze.products_1001", "bronze.products_1002",
            "bronze.products_1003_enriched"},
           "bronze.products_all"),
      Node("merge_bronze_stores_all", "bronze",
           {"bronze.stores_1001", "bronze.stores_1002", "bronze.stores_1003"},
           "bronze.stores_all") }

SilverNodes ==
    { Node("silver_union_mapping_product", "silver",
           {"raw_1001_mapping_product", "raw_1002_mapping_product",
            "raw_1003_mapping_product"},
           "mapping_product_union"),
      Node("silver_union_mapping_store", "silver",
           {"raw_1001_mapping_store", "raw_1002_mapping_store",
            "raw_1003_mapping_store"},
           "mapping_store_union"),
      Node("silver_build_products", "silver",
           {"bronze.products_all", "mapping_product_union"}, "silver.products"),
      Node("silver_build_stores", "silver",
           {"bronze.stores_all", "mapping_store_union"}, "silver.stores"),
      Node("silver_build_sales_daily", "silver",
           {"bronze.sales_all", "bronze.deliveries_all",
            "raw_1001_mapping_delivery2sales", "mapping_product_union",
            "mapping_store_union"},
           "silver.sales_daily") }

GoldNodes ==
    { Node("gold_build_dim_product", "gold", {"silver.products"}, "gold.dim_product"),
      Node("gold_build_dim_store", "gold", {"silver.stores"}, "gold.dim_store"),
      Node("gold_build_fact", "gold",
           {"silver.sales_daily", "gold.dim_product", "gold.dim_store",
            "bronze.deliveries_all", "mapping_product_union",
            "mapping_store_union", "params:delivery_to_sales_map"},
           "gold.fact_daily_store_product"),
      Node("gold_build_view_ml", "gold",
           {"gold.fact_daily_store_product"}, "views.features_ml_daily"),
      Node("gold_build_view_app", "gold",
           {"gold.fact_daily_store_product", "gold.dim_product", "gold.dim_store"},
           "views.app_view_daily") }

DeclaredNodes == BronzeMergeNodes \cup SilverNodes \cup GoldNodes

\* the per-customer tables the bronze normalizer nodes write
BronzeCustomerTables ==
    { "bronze.sales_1001", "bronze.sales_1002", "bronze.deliveries_sales_1003",
      "bronze.deliveries_1001", "bronze.deliveries_1002",
      "bronze.products_1001", "bronze.products_1002",
      "bronze.products_1003_enriched",
      "bronze.stores_1001", "bronze.stores_1002", "bronze.stores_1003" }

\* the tier that produces a dataset; raw tables and parameters are external
DatasetTier(d) ==
    IF \E n \in DeclaredNodes : n.output = d
    THEN (CHOOSE n \in DeclaredNodes : n.output = d).tier
    ELSE IF d \in BronzeCustomerTables THEN "bronze"
    ELSE "external"

\* a dataset a node can load: external, written by a normalizer, or written
\* by a node that has run
Materialized(d) ==
    \/ DatasetTier(d) = "external"
    \/ d \in BronzeCustomerTables
    \/ \E n \in DeclaredNodes : n.output = d /\ n.name \in nodes_run

\* ------------------------------------------- source normalizers, row by row
\* bronze/nodes.py on the rows themselves: a raw table is the sequence of its
\* rows, a row a function from column names to cells (Num, Text, Missing).
Date(s) == [t |-> "date", n |-> 0, s |-> s]

PayloadNone == [kind |-> "None", rows |-> <<>>, files |-> <<>>]
PayloadDataFrame(q) == [kind |-> "DataFrame", rows |-> q, files |-> <<>>]
\* a mapping filename -> table; files[i] are the rows under FileNames[i]
PayloadDict(files) == [kind |-> "dict", rows |-> <<>>, files |-> files]

ReturnedRows(cols, rows) == [status |-> "ok", cols |-> cols, rows |-> rows]

WithColumn(q, col, x) == [i \in DOMAIN q |-> (col :> x) @@ q[i]]

\* the parts of a mapping in file order, each with the file name column; a
\* table without rows is skipped
RECURSIVE ConcatPartRows(_, _, _)
ConcatPartRows(files, k, filename_col) ==
    IF k > Len(files) THEN <<>>
    ELSE WithColumn(files[k], filename_col, Text(<<FileNames[k]>>))
         \o ConcatPartRows(files, k + 1, filename_col)

\* _concat_incremental_with_source; a single DataFrame gets the file name
\* column only when it has none, with pd.NA in it
concat_incremental_rows(raw) ==
    IF raw.kind = "None" THEN <<>>
    ELSE IF raw.kind = "dict" THEN ConcatPartRows(raw.files, 1, "_source_file")
    ELSE [i \in DOMAIN raw.rows |->
             IF "_source_file" \in DOMAIN raw.rows[i] THEN raw.rows[i]
             ELSE ("_source_file" :> Missing) @@ raw.rows[i]]

\* df.rename(columns=...)
rename_row(r, columns) ==
    LET src(c) == IF \E k \in DOMAIN columns : columns[k] = c
                  THEN CHOOSE k \in DOMAIN columns : columns[k] = c ELSE c
    IN  [c \in rename(DOMAIN r, columns) |-> r[src(c)]]

\* the texts strptime reads with "%Y-%m-%d"
IsoDates == {"2025-08-10", "2025-08-11"}
ParsesAsDate(x) == x.t = "na" \/ (x.t = "text" /\ Len(x.s) = 1 /\ x.s[1] \in IsoDates)
\* pd.to_datetime(..., format="%Y-%m-%d", errors="raise").dt.normalize()
to_datetime_iso(x) == IF x.t = "na" THEN Missing ELSE Date(x.s)
\* .astype("string")
astype_string_cell(x) == IF x.t = "num" THEN Text(DecimalString(x.n)) ELSE x
\* pd.to_numeric(..., errors="raise"): a missing value stays missing
ParsesAsNumber(x) == x.t = "na" \/ Coercible(x)
to_numeric_cell(x) == IF x.t = "na" THEN Missing ELSE Num(int64(x))
\* .fillna(0.0)
fillna_zero(x) == IF x.t = "na" THEN Num(0) ELSE x

BronzeSalesColumnOrder ==
    <<"target_date", "number_store", "number_product", "sales_qty",
      "_customer_id", "_source_file">>

\* df[[...]] row by row
select_row(r, listed) == [c \in Range(listed) |-> r[c]]

\* the normalizer with rows of missing quantity dropped
normalize_cosmos_sales_rows_dropna(raw_sales, customer_id) ==
    LET df == [i \in DOMAIN concat_incremental_rows(raw_sales) |->
                  rename_row(concat_incremental_rows(raw_sales)[i], CosmosSalesColumns)]
        kept == SelectSeq(df, LAMBDA r : r["sales_qty"].t # "na")
        typed(r) == ("target_date" :> to_datetime_iso(r["target_date"]))
                    @@ ("number_store" :> astype_string_cell(r["number_store"]))
                    @@ ("number_product" :> astype_string_cell(r["number_product"]))
                    @@ ("sales_qty" :> to_numeric_cell(r["sales_qty"]))
                    @@ ("_customer_id" :> Text(customer_id))
                    @@ r
    IN  IF df = <<>> THEN ReturnedRows(BronzeSalesColumnOrder, <<>>)
        ELSE IF \E i \in DOMAIN df : ~ ParsesAsDate(df[i]["target_date"])
        THEN Raised("ValueError")
        ELSE IF \E i \in DOMAIN df : ~ ParsesAsNumber(df[i]["sales_qty"])
        THEN Raised("ValueError")
        ELSE ReturnedRows(BronzeSalesColumnOrder,
                          [i \in DOMAIN kept |->
                              select_row(typed(kept[i]), BronzeSalesColumnOrder)])

\* normalize_cosmos_sales_bronze, row by row
normalize_cosmos_sales_rows(raw_sales, customer_id) ==
    LET concat == concat_incremental_rows(raw_sales)
        df == [i \in DOMAIN concat |-> rename_row(concat[i], CosmosSalesColumns)]
        typed(r) == ("target_date" :> to_datetime_iso(r["target_date"]))
                    @@ ("number_store" :> astype_string_cell(r["number_store"]))
                    @@ ("number_product" :> astype_string_cell(r["number_product"]))
                    @@ ("sales_qty" :> fillna_zero(to_numeric_cell(r["sales_qty"])))
                    @@ ("_customer_id" :> Text(customer_id))
                    @@ r
    IN  IF df = <<>> THEN ReturnedRows(BronzeSalesColumnOrder, <<>>)
        ELSE IF \E i \in DOMAIN df : ~ ParsesAsDate(df[i]["target_date"])
        THEN Raised("ValueError")
        ELSE IF \E i \in DOMAIN df : ~ ParsesAsNumber(df[i]["sales_qty"])
        THEN Raised("ValueError")
        ELSE ReturnedRows(BronzeSalesColumnOrder,
                          [i \in DOMAIN df |->
                              select_row(typed(df[i]), BronzeSalesColumnOrder)])

\* raw Cosmos sales rows: the quantity is a number, a digit text, another
\* text or missing; the date an ISO text, a text in another format or missing
RawSalesRow(d, q) ==
    ("Datum" :> d) @@ ("Kunde" :> Num(2)) @@ ("Artikel" :> Num(72))
    @@ ("VK-Menge" :> q) @@ ("VK-Betrag" :> Num(245))
CosmosSalesRawRows ==
    { RawSalesRow(Text(<<d>>), q) :
      d \in IsoDates,
      q \in {Num(173), Num(47), Text(<<"4", "7">>), Missing, Text(<<"n", "/", "a">>)} }
    \cup { RawSalesRow(Text(<<"10.08.2025">>), Num(173)), RawSalesRow(Missing, Num(47)) }

CustomerIds == { <<"1", "0", "0", "1">>, <<"1", "0", "0", "2">> }

\* the payloads of a normalizer over a set of raw rows: None, one table, or
\* a mapping of two files
Payloads(rowset) ==
    {PayloadNone}
    \cup { PayloadDataFrame(q) : q \in SeqsUpTo(rowset, MaxPayloadRows) }
    \cup { PayloadDict(<<a, b>>) : a, b \in SeqsUpTo(rowset, MaxPayloadRows - 1) }

\* Galaxy prices.  A cell of the raw table is a list of price objects, a dict
\* (a function from keys to values), a str holding a JSON document, another
\* str, or missing; a price is a number of hundredths.
ListCell(items) == [t |-> "list", items |-> items]
DictCell(d) == [t |-> "dict", d |-> d]
\* json.dumps(v)
JsonStr(v) == [t |-> "json_str", json |-> v]
\* json.loads
json_loads(x) == x.json

\* ingestion_config["erps"]["galaxy"]["prices"]
GalaxyPricesKeys ==
    [wrapper |-> "Verkaufspreise", product |-> "ArtikelNummer", price |-> "ArtikelPreis"]

\* the items of a list or of a dict: the dict itself when it carries the two
\* fields, the list under the wrapper key when it wraps one, else nothing
ItemsOfParsed(v, f) ==
    IF v.t = "list" THEN v.items
    ELSE IF v.t = "dict"
    THEN IF f.product \in DOMAIN v.d /\ f.price \in DOMAIN v.d THEN <<v.d>>
         ELSE IF f.wrapper \in DOMAIN v.d /\ v.d[f.wrapper].t = "list"
         THEN v.d[f.wrapper].items
         ELSE <<>>
    ELSE <<>>

\* per-cell extraction in the wrapper column (a str that is no JSON is passed)
ItemsOfCell(v, f) ==
    IF v.t = "json_str" THEN ItemsOfParsed(json_loads(v), f)
    ELSE ItemsOfParsed(v, f)

\* the fallback: a dict wrapping a list under the wrapper key
ItemsOfWrappingDict(v, f) ==
    IF v.t = "dict" /\ f.wrapper \in DOMAIN v.d /\ v.d[f.wrapper].t = "list"
    THEN v.d[f.wrapper].items ELSE <<>>

\* items.extend over the column, top to bottom
RECURSIVE ItemsOfColumn(_, _, _, _)
ItemsOfColumn(df, col, f, fallback) ==
    IF df = <<>> THEN <<>>
    ELSE (IF fallback THEN ItemsOfWrappingDict(Head(df)[col], f)
          ELSE ItemsOfCell(Head(df)[col], f))
         \o ItemsOfColumn(Tail(df), col, f, fallback)

RECURSIVE ItemsOfColumns(_, _, _)
ItemsOfColumns(df, cols, f) ==
    IF cols = <<>> THEN <<>>
    ELSE ItemsOfColumn(df, Head(cols), f, TRUE) \o ItemsOfColumns(df, Tail(cols), f)

\* .str.replace(",", ".", regex=False)
str_replace(s, old, new) == [i \in DOMAIN s |-> IF s[i] = old THEN new ELSE s[i]]

\* pd.to_numeric of a decimal text, in hundredths
IsDecimal(s) ==
    /\ s # <<>>
    /\ \A i \in DOMAIN s : IsDigit(s[i]) \/ s[i] = "."
    /\ Cardinality({ i \in DOMAIN s : s[i] = "." }) <= 1
    /\ \E i \in DOMAIN s : IsDigit(s[i])
    /\ \A i \in DOMAIN s : s[i] = "." => Len(s) - i <= 2
ParseDecimal(s) ==
    LET dots == { i \in DOMAIN s : s[i] = "." }
        p == IF dots = {} THEN Len(s) + 1 ELSE CHOOSE i \in dots : TRUE
        frac == SubSeq(s, p + 1, Len(s))
    IN  100 * ParseDigits(SubSeq(s, 1, p - 1))
        + (IF Len(frac) = 1 THEN 10 * ParseDigits(frac) ELSE ParseDigits(frac))

\* .astype(str) of a value of a price object
astype_str_value(x) ==
    IF x.t = "text" THEN x.s
    ELSE IF x.t = "num" THEN DecimalString(x.n)
    ELSE <<"n", "a", "n">>

RaisedNaming(error, wrapper, columns) ==
    [status |-> "error", error |-> error, wrapper |-> wrapper, columns |-> columns]

BronzePricesColumnOrder == <<"target_date", "number_product", "price", "_customer_id">>

\* the columns of the concatenated table, in their order
RawPricesColumns == <<"payload", "Verkaufspreise", "_source_file">>
ColumnsOf(df) == SelectSeq(RawPricesColumns, LAMBDA c : c \in DOMAIN df[1])

ValueOrMissing(item, key) == IF key \in DOMAIN item THEN item[key] ELSE Missing

\* the rows of the items found, or the error of a value that is no number
PriceRows(items, f, customer_id) ==
    LET price_text(item) ==
            str_replace(astype_str_value(ValueOrMissing(item, f.price)), ",", ".")
        row(item) ==
            [target_date |-> Missing,
             number_product |-> astype_string_cell(ValueOrMissing(item, f.product)),
             price |-> IF price_text(item) = <<"n", "a", "n">> THEN Missing
                       ELSE Num(ParseDecimal(price_text(item))),
             _customer_id |-> Text(customer_id)]
    IN  IF \A i \in DOMAIN items : f.product \notin DOMAIN items[i]
        THEN Raised("KeyError")
        ELSE IF \A i \in DOMAIN items : f.price \notin DOMAIN items[i]
        THEN Raised("KeyError")
        ELSE IF \E i \in DOMAIN items :
                    /\ price_text(items[i]) # <<"n", "a", "n">>
                    /\ ~ IsDecimal(price_text(items[i]))
        THEN Raised("ValueError")
        ELSE ReturnedRows(BronzePricesColumnOrder, [i \in DOMAIN items |-> row(items[i])])

\* the normalizer without the fallback over the other columns
normalize_galaxy_prices_rows_wrapper_column_only(raw_prices, customer_id) ==
    LET df0 == concat_incremental_rows(raw_prices)
        f == GalaxyPricesKeys
        items == IF f.wrapper \in DOMAIN df0[1]
                 THEN ItemsOfColumn(df0, f.wrapper, f, FALSE) ELSE <<>>
    IN  IF df0 = <<>> THEN ReturnedRows(BronzePricesColumnOrder, <<>>)
        ELSE IF items = <<>>
        THEN ReturnedRows(BronzePricesColumnOrder, <<>>)
        ELSE PriceRows(items, f, customer_id)

\* normalize_galaxy_prices_bronze_daily, row by row
normalize_galaxy_prices_rows(raw_prices, customer_id) ==
    LET df0 == concat_incremental_rows(raw_prices)
        f == GalaxyPricesKeys
        found == IF f.wrapper \in DOMAIN df0[1]
                 THEN ItemsOfColumn(df0, f.wrapper, f, FALSE) ELSE <<>>
        items == IF found = <<>> THEN ItemsOfColumns(df0, ColumnsOf(df0), f)
                 ELSE found
    IN  IF df0 = <<>> THEN ReturnedRows(BronzePricesColumnOrder, <<>>)
        ELSE IF items = <<>>
        THEN RaisedNaming("KeyError", f.wrapper, ColumnsOf(df0))
        ELSE PriceRows(items, f, customer_id)

\* price objects as the loader hands them over: texts, the decimal sign a
\* point or a comma, the product number a text or a number
PriceObject(number, price) == ("ArtikelNummer" :> number) @@ ("ArtikelPreis" :> price)
PriceObject1070 == PriceObject(Text(<<"1", "0", "7", "0">>), Text(<<"2", ".", "9", "9">>))
PriceObject1088 == PriceObject(Num(1088), Text(<<"3", ",", "4", "9">>))
PriceObjects == {PriceObject1070, PriceObject1088}
PriceLists == { <<>>, <<PriceObject1070, PriceObject1088>>, <<PriceObject1088>> }

GalaxyPricesCells ==
    { ListCell(q) : q \in PriceLists }
    \cup { DictCell(o) : o \in PriceObjects }
    \cup { DictCell("Verkaufspreise" :> ListCell(q)) : q \in PriceLists }
    \cup { DictCell("Stand" :> Text(<<"2025-08-10">>)), Text(<<"n", "/", "a">>), Missing }
    \cup { JsonStr(ListCell(q)) : q \in PriceLists \ {<<>>} }
    \cup { JsonStr(DictCell(PriceObject1070)) }
    \cup { JsonStr(DictCell("Verkaufspreise" :> ListCell(q))) : q \in PriceLists \ {<<>>} }

\* a raw prices table has one data column: the wrapper key or another name
GalaxyPricesRawRows(col) == { (col :> v) : v \in GalaxyPricesCells }

\* Enrichment of the Galaxy products with the prices table, row by row.  A
\* table is None or a DataFrame of rows; the products come with or without a
\* price column of their own.
BronzeProductsColumnOrder ==
    <<"number_product", "product_name", "product_group", "price", "moq", "_customer_id">>

NoTableOrEmpty(df) == df.kind = "None" \/ df.rows = <<>>

\* the rows of the right side under a key of the merge
PricesUnder(pr, r) ==
    { k \in DOMAIN pr : /\ pr[k]["number_product"] = r["number_product"]
                        /\ pr[k]["_customer_id"] = r["_customer_id"] }

\* validate="m:1": the right side has two rows under one key
RightKeysRepeat(pr) == \E k \in DOMAIN pr : Cardinality(PricesUnder(pr, pr[k])) > 1

\* the left merge: every left row once, with the right side's price or NaN
price_from_prices(pr, r) ==
    IF PricesUnder(pr, r) = {} THEN Missing
    ELSE pr[CHOOSE k \in PricesUnder(pr, r) : TRUE]["price"]

\* the enrichment with the prices table taking precedence
enrich_galaxy_products_rows_prices_first(products_1003, prices_1003) ==
    LET p == [i \in DOMAIN products_1003.rows |->
                 [products_1003.rows[i] EXCEPT
                     !["number_product"] = astype_string_cell(@)]]
        pr == [k \in DOMAIN prices_1003.rows |->
                  [prices_1003.rows[k] EXCEPT
                      !["number_product"] = astype_string_cell(@),
                      !["price"] = to_numeric_cell(@)]]
        coalesced(r) ==
            IF price_from_prices(pr, r).t # "na" THEN price_from_prices(pr, r)
            ELSE IF "price" \in DOMAIN r THEN r["price"]
            ELSE Missing
        own(r) == IF "price" \in DOMAIN r THEN r["price"] ELSE Missing
    IN  IF NoTableOrEmpty(products_1003)
        THEN ReturnedRows(BronzeProductsColumnOrder, <<>>)
        ELSE IF NoTableOrEmpty(prices_1003)
        THEN ReturnedRows(BronzeProductsColumnOrder,
                          [i \in DOMAIN p |->
                              select_row(("price" :> own(p[i])) @@ p[i],
                                         BronzeProductsColumnOrder)])
        ELSE IF RightKeysRepeat(pr) THEN Raised("MergeError")
        ELSE ReturnedRows(BronzeProductsColumnOrder,
                          [i \in DOMAIN p |->
                              select_row(("price" :> coalesced(p[i])) @@ p[i],
                                         BronzeProductsColumnOrder)])

\* enrich_galaxy_products_with_prices_bronze, row by row
enrich_galaxy_products_rows(products_1003, prices_1003) ==
    LET p == [i \in DOMAIN products_1003.rows |->
                 [products_1003.rows[i] EXCEPT
                     !["number_product"] = astype_string_cell(@)]]
        pr == [k \in DOMAIN prices_1003.rows |->
                  [prices_1003.rows[k] EXCEPT
                      !["number_product"] = astype_string_cell(@),
                      !["price"] = to_numeric_cell(@)]]
        \* without a price column on the left the merged column is the right
        \* side's; with one, the left value stays where it is not null
        coalesced(r) ==
            IF "price" \notin DOMAIN r THEN price_from_prices(pr, r)
            ELSE IF r["price"].t # "na" THEN r["price"]
            ELSE price_from_prices(pr, r)
        own(r) == IF "price" \in DOMAIN r THEN r["price"] ELSE Missing
    IN  IF NoTableOrEmpty(products_1003)
        THEN ReturnedRows(BronzeProductsColumnOrder, <<>>)
        ELSE IF NoTableOrEmpty(prices_1003)
        THEN ReturnedRows(BronzeProductsColumnOrder,
                          [i \in DOMAIN p |->
                              select_row(("price" :> own(p[i])) @@ p[i],
                                         BronzeProductsColumnOrder)])
        ELSE IF RightKeysRepeat(pr) THEN Raised("MergeError")
        ELSE ReturnedRows(BronzeProductsColumnOrder,
                          [i \in DOMAIN p |->
                              select_row(("price" :> coalesced(p[i])) @@ p[i],
                                         BronzeProductsColumnOrder)])

ProductNumbers == { <<"1", "0", "7", "0">>, <<"1", "0", "8", "8">> }

\* rows of bronze.products_1003 as normalize_galaxy_products_bronze returns
\* them, without a price column
GalaxyProductRows ==
    { [number_product |-> Text(n), product_name |-> Text(<<"Brot">>),
       product_group |-> Missing, moq |-> Num(0),
       _customer_id |-> Text(<<"1", "0", "0", "3">>)] : n \in ProductNumbers }
\* product rows that carry a price column of their own, filled or not
PricedProductRows ==
    { [number_product |-> Text(n), product_name |-> Text(<<"Brot">>),
       product_group |-> Missing, price |-> x, moq |-> Num(0),
       _customer_id |-> Text(<<"1", "0", "0", "3">>)] :
      n \in ProductNumbers, x \in {Num(199), Missing} }
\* rows of bronze.prices_1003
GalaxyPriceRows ==
    { [target_date |-> Missing, number_product |-> Text(n), price |-> x,
       _customer_id |-> Text(<<"1", "0", "0", "3">>)] :
      n \in ProductNumbers, x \in {Num(299), Num(349), Missing} }

Tables(rowset) ==
    {PayloadNone} \cup { PayloadDataFrame(q) : q \in SeqsUpTo(rowset, MaxPayloadRows) }

\* Galaxy deliveries and sales.  A raw record holds under "Filiale" an array
\* of store sub-records, each with its date, its store number and under
\* "ArtikelHistory" an array of history elements; an element is written by
\* the fields the configuration names (product, sales_qty, delivery_qty,
\* delivery_batch).
HistoryElement(product, sales, delivered) ==
    [product |-> product, sales_qty |-> sales, delivery_qty |-> delivered,
     delivery_batch |-> Text(<<"B1">>)]
StoreRecord(store, history) ==
    [Datum |-> Text(<<"10", "08", "2025">>), FilialNummer |-> store,
     ArtikelHistory |-> history]

\* pd.to_datetime(..., dayfirst=True).dt.date of a day.month.year text
to_date_dayfirst(x) == IF x.t = "na" THEN Missing ELSE Date(<<x.s[3], x.s[2], x.s[1]>>)

\* df.explode(column): one entry per element of the array, a row with an
\* empty array stays as one entry with NaN
RECURSIVE ExplodeFiliale(_)
ExplodeFiliale(df0) ==
    IF df0 = <<>> THEN <<>>
    ELSE LET row == Head(df0)
             array == row["Filiale"]
         IN  (IF array = <<>> THEN << [na |-> TRUE, file |-> row["_source_file"]] >>
              ELSE [k \in DOMAIN array |->
                       [na |-> FALSE, rec |-> array[k], file |-> row["_source_file"]]])
             \o ExplodeFiliale(Tail(df0))

\* pd.json_normalize of the exploded column plus the file name column: NaN
\* gives a record without fields
NormalizedFiliale(e) ==
    IF e.na
    THEN [Datum |-> Missing, FilialNummer |-> Missing, history_na |-> TRUE,
          ArtikelHistory |-> <<>>, _source_file |-> e.file]
    ELSE [Datum |-> e.rec.Datum, FilialNummer |-> e.rec.FilialNummer,
          history_na |-> FALSE, ArtikelHistory |-> e.rec.ArtikelHistory,
          _source_file |-> e.file]

RECURSIVE ExplodeHistory(_)
ExplodeHistory(fil) ==
    IF fil = <<>> THEN <<>>
    ELSE LET row == Head(fil)
         IN  (IF row.history_na \/ row.ArtikelHistory = <<>>
              THEN << [na |-> TRUE, parent |-> row] >>
              ELSE [k \in DOMAIN row.ArtikelHistory |->
                       [na |-> FALSE, el |-> row.ArtikelHistory[k], parent |-> row]])
             \o ExplodeHistory(Tail(fil))

BronzeDeliveriesSalesColumnOrder ==
    <<"target_date", "number_store", "number_product", "sales_qty", "delivery_qty",
      "delivery_batch", "_customer_id", "_source_file">>

FlatRow(h, customer_id) ==
    [target_date |-> to_date_dayfirst(h.parent.Datum),
     number_store |-> astype_string_cell(h.parent.FilialNummer),
     number_product |-> IF h.na THEN Missing ELSE astype_string_cell(h.el.product),
     sales_qty |-> IF h.na THEN Num(0) ELSE fillna_zero(to_numeric_cell(h.el.sales_qty)),
     delivery_qty |-> IF h.na THEN Num(0)
                      ELSE fillna_zero(to_numeric_cell(h.el.delivery_qty)),
     delivery_batch |-> IF h.na THEN Missing ELSE h.el.delivery_batch,
     _customer_id |-> Text(customer_id),
     _source_file |-> h.parent._source_file]

\* the table with the file name column as the function adds it: per file of
\* a mapping, not at all for a single DataFrame (NA in the result)
FlattenInput(raw) ==
    IF raw.kind = "dict" THEN ConcatPartRows(raw.files, 1, "_source_file")
    ELSE WithColumn(raw.rows, "_source_file", Missing)

\* flatten_galaxy_deliveries_sales_bronze, row by row.  nan_record is what
\* pd.json_normalize does with a NaN among the records: "error" (it raises)
\* or "empty" (a record without fields), which differs between pandas
\* versions.
flatten_galaxy_deliveries_sales_rows(raw_deliv_sales, customer_id, nan_record) ==
    LET df0 == FlattenInput(raw_deliv_sales)
        exploded == ExplodeFiliale(df0)
        fil == [k \in DOMAIN exploded |-> NormalizedFiliale(exploded[k])]
        hist == ExplodeHistory(fil)
    IN  IF raw_deliv_sales.kind = "None" THEN Raised("AttributeError")
        ELSE IF df0 = <<>>
        THEN ReturnedRows(BronzeDeliveriesSalesColumnOrder, <<>>)
        ELSE IF \E k \in DOMAIN exploded : exploded[k].na /\ nan_record = "error"
        THEN Raised("AttributeError")
        \* no record with fields: fil has no history column
        ELSE IF \A k \in DOMAIN exploded : exploded[k].na THEN Raised("KeyError")
        ELSE IF \E k \in DOMAIN hist : hist[k].na /\ nan_record = "error"
        THEN Raised("AttributeError")
        \* no element with fields: hist has no product column
        ELSE IF \A k \in DOMAIN hist : hist[k].na THEN Raised("KeyError")
        ELSE ReturnedRows(BronzeDeliveriesSalesColumnOrder,
                          [k \in DOMAIN hist |-> FlatRow(hist[k], customer_id)])

Element72 == HistoryElement(Num(72), Num(5), Num(3))
Element29 == HistoryElement(Text(<<"2", "9">>), Missing, Num(4))
\* raw records: the outer array holds no, one or two store sub-records
GalaxyDeliveriesSalesRawRows ==
    { [Filiale |-> q] :
      q \in { <<>>,
              <<StoreRecord(Num(2), <<Element72, Element29>>)>>,
              <<StoreRecord(Num(3), <<>>)>>,
              <<StoreRecord(Num(2), <<Element72, Element29>>),
                StoreRecord(Num(3), <<Element72>>)>>,
              <<StoreRecord(Num(3), <<>>),
                StoreRecord(Num(2), <<Element72, Element29>>)>> } }

\* ----------------------------------------------------------------- actions
BronzeRowCount == Cardinality(bronze_sales_all) + Cardinality(bronze_deliveries_all)

\* merge_bronze_sales_all: one more row reaches bronze.sales_all
MergeBronzeSales(universe) ==
    /\ silver_sales_daily = NotBuilt
    /\ BronzeRowCount < MaxBronzeRows
    /\ \E r \in universe \ bronze_sales_all :
           bronze_sales_all' = bronze_sales_all \cup {r}
    /\ UNCHANGED <<bronze_deliveries_all, map_delivery2sales, delivery_to_sales_map,
                   mapping_product_union, mapping_store_union, dim_product,
                   silver_sales_daily, fact_daily, other_vars>>

\* merge_bronze_deliveries_all: one more row reaches bronze.deliveries_all
MergeBronzeDeliveries(universe) ==
    /\ silver_sales_daily = NotBuilt
    /\ BronzeRowCount < MaxBronzeRows
    /\ \E r \in universe \ bronze_deliveries_all :
           bronze_deliveries_all' = bronze_deliveries_all \cup {r}
    /\ UNCHANGED <<bronze_sales_all, map_delivery2sales, delivery_to_sales_map,
                   mapping_product_union, mapping_store_union, dim_product,
                   silver_sales_daily, fact_daily, other_vars>>

\* node silver_build_sales_daily
SilverBuildSalesDaily ==
    /\ silver_sales_daily = NotBuilt
    /\ silver_sales_daily' =
           build_silver_sales_daily(bronze_sales_all, bronze_deliveries_all,
                                    map_delivery2sales, mapping_product_union,
                                    mapping_store_union)
    /\ UNCHANGED <<inputs, fact_daily, other_vars>>

\* node gold_build_fact (runs once silver.sales_daily is materialized)
GoldBuildFact ==
    /\ silver_sales_daily # NotBuilt
    /\ silver_sales_daily.status = "ok"
    /\ fact_daily = NotBuilt
    /\ fact_daily' =
           build_fact_daily_store_product(silver_sales_daily.rows, dim_product,
                                          bronze_deliveries_all,
                                          mapping_product_union, mapping_store_union,
                                          delivery_to_sales_map)
    /\ UNCHANGED <<inputs, silver_sales_daily, other_vars>>

\* the wall clock advances
Tick ==
    /\ clock < MaxClock
    /\ clock' = clock + 1
    /\ UNCHANGED <<pipeline_vars, bronze_frames, bronze_merged, union_vars, normalize_vars, view_vars, rest_vars>>

\* a merge node (merge_bronze_*_all) runs on the tables it is given
ConcatFramesWithMeta ==
    /\ bronze_frames # <<>>
    /\ bronze_merged' = concat_frames_with_meta(bronze_frames, clock)
    /\ UNCHANGED <<pipeline_vars, bronze_frames, clock, union_vars, normalize_vars, view_vars, rest_vars>>

\* node silver_union_mapping_product
UnionMappingProduct ==
    /\ raw_mappings.entity = "product"
    /\ mapping_unified = NotBuilt
    /\ mapping_unified' = union_mapping_product(raw_mappings.tables[1],
                                                raw_mappings.tables[2],
                                                raw_mappings.tables[3])
    /\ UNCHANGED <<pipeline_vars, merge_vars, raw_mappings, normalize_vars, view_vars, rest_vars>>

\* node silver_union_mapping_store
UnionMappingStore ==
    /\ raw_mappings.entity = "store"
    /\ mapping_unified = NotBuilt
    /\ mapping_unified' = union_mapping_store(raw_mappings.tables[1],
                                              raw_mappings.tables[2],
                                              raw_mappings.tables[3])
    /\ UNCHANGED <<pipeline_vars, merge_vars, raw_mappings, normalize_vars, view_vars, rest_vars>>

\* The bronze normalizer nodes: each runs once on the raw input it is given.
Normalize(normalizer, result) ==
    /\ raw_source.normalizer = normalizer
    /\ bronze_normalized = NotBuilt
    /\ bronze_normalized' = result
    /\ UNCHANGED <<pipeline_vars, merge_vars, union_vars, raw_source, view_vars, rest_vars>>

NormalizeCosmosSales ==
    Normalize("normalize_cosmos_sales_bronze",
              normalize_cosmos_sales_bronze(raw_source.raw))
NormalizeCosmosDeliveries ==
    Normalize("normalize_cosmos_deliveries_bronze",
              normalize_cosmos_deliveries_bronze(raw_source.raw))
NormalizeCosmosProducts ==
    Normalize("normalize_cosmos_products_bronze",
              normalize_cosmos_products_bronze(raw_source.raw))
NormalizeCosmosStores ==
    Normalize("normalize_cosmos_stores_bronze",
              normalize_cosmos_stores_bronze(raw_source.raw))
FlattenGalaxyDeliveriesSales ==
    Normalize("flatten_galaxy_deliveries_sales_bronze",
              flatten_galaxy_deliveries_sales_bronze(raw_source.raw))
NormalizeGalaxyPrices ==
    Normalize("normalize_galaxy_prices_bronze_daily",
              normalize_galaxy_prices_bronze_daily(raw_source.raw))
NormalizeGalaxyProducts ==
    Normalize("normalize_galaxy_products_bronze",
              normalize_galaxy_products_bronze(raw_source.raw))
ParseGalaxyStores ==
    Normalize("parse_galaxy_stores_bronze",
              parse_galaxy_stores_bronze(raw_source.raw))
EnrichGalaxyProductsWithPrices ==
    Normalize("enrich_galaxy_products_with_prices_bronze",
              enrich_galaxy_products_with_prices_bronze(raw_source.raw,
                                                        raw_source.prices))

\* node gold_build_view_ml (runs once the fact is materialized)
BuildViewFeaturesMlDaily ==
    /\ fact_daily # NotBuilt
    /\ fact_daily.status = "ok"
    /\ view_features_ml_daily = NotBuilt
    /\ view_features_ml_daily' = build_view_features_ml_daily(fact_daily.rows)
    /\ UNCHANGED <<pipeline_vars, merge_vars, union_vars, normalize_vars,
                   dim_store, view_app_daily, rest_vars>>

\* node gold_build_view_app
BuildViewAppDaily ==
    /\ fact_daily # NotBuilt
    /\ fact_daily.status = "ok"
    /\ view_app_daily = NotBuilt
    /\ view_app_daily' = build_view_app_daily(fact_daily.rows, dim_product, dim_store)
    /\ UNCHANGED <<pipeline_vars, merge_vars, union_vars, normalize_vars,
                   dim_store, view_features_ml_daily, rest_vars>>

\* node gold_build_dim_product (gold.dim_product holds no row until it ran)
BuildDimProduct ==
    /\ silver_products # <<>>
    /\ dim_product = {}
    /\ dim_product' = build_dim_product(silver_products)
    /\ UNCHANGED <<bronze_sales_all, bronze_deliveries_all, map_delivery2sales,
                   delivery_to_sales_map, mapping_product_union,
                   mapping_store_union, silver_sales_daily, fact_daily,
                   other_vars>>

\* node gold_build_dim_store
BuildDimStore ==
    /\ silver_stores # <<>>
    /\ dim_store = {}
    /\ dim_store' = build_dim_store(silver_stores)
    /\ UNCHANGED <<pipeline_vars, merge_vars, union_vars, normalize_vars,
                   view_features_ml_daily, view_app_daily, rest_vars>>

\* the runner runs a node once all the datasets it reads exist
RunNode(n) ==
    /\ n.name \notin nodes_run
    /\ \A d \in n.inputs : Materialized(d)
    /\ nodes_run' = nodes_run \cup {n.name}
    /\ UNCHANGED <<pipeline_vars, merge_vars, union_vars, normalize_vars,
                   view_vars, dims_vars, rows_vars>>

\* node bronze_sales_1001 / bronze_sales_1002, row by row
NormalizeCosmosSalesRows ==
    /\ raw_payload.normalizer = "normalize_cosmos_sales_bronze"
    /\ bronze_rows = NotBuilt
    /\ bronze_rows' = normalize_cosmos_sales_rows(raw_payload.raw, raw_payload.customer_id)
    /\ UNCHANGED <<pipeline_vars, merge_vars, union_vars, normalize_vars, view_vars,
                   dims_vars, nodes_run, raw_payload>>

\* node bronze_galaxy_1003_prices, row by row
NormalizeGalaxyPricesRows ==
    /\ raw_payload.normalizer = "normalize_galaxy_prices_bronze_daily"
    /\ bronze_rows = NotBuilt
    /\ bronze_rows' = normalize_galaxy_prices_rows(raw_payload.raw, raw_payload.customer_id)
    /\ UNCHANGED <<pipeline_vars, merge_vars, union_vars, normalize_vars, view_vars,
                   dims_vars, nodes_run, raw_payload>>

\* node bronze_enrich_1003_products_with_prices, row by row
EnrichGalaxyProductsRows ==
    /\ raw_payload.normalizer = "enrich_galaxy_products_with_prices_bronze"
    /\ bronze_rows = NotBuilt
    /\ bronze_rows' = enrich_galaxy_products_rows(raw_payload.products_1003,
                                                  raw_payload.prices_1003)
    /\ UNCHANGED <<pipeline_vars, merge_vars, union_vars, normalize_vars, view_vars,
                   dims_vars, nodes_run, raw_payload>>

\* node bronze_galaxy_1003_deliveries_sales, row by row, on either pandas
FlattenGalaxyDeliveriesSalesRows ==
    /\ raw_payload.normalizer = "flatten_galaxy_deliveries_sales_bronze"
    /\ bronze_rows = NotBuilt
    /\ \E nan_record \in {"error", "empty"} :
           bronze_rows' = flatten_galaxy_deliveries_sales_rows(
                              raw_payload.raw, raw_payload.customer_id, nan_record)
    /\ UNCHANGED <<pipeline_vars, merge_vars, union_vars, normalize_vars, view_vars,
                   dims_vars, nodes_run, raw_payload>>

\* ---------------------------------------------------------- specifications
\* the fact pipeline, not started and left alone
PipelineIdle ==
    /\ bronze_sales_all = {}
    /\ bronze_deliveries_all = {}
    /\ map_delivery2sales = {}
    /\ delivery_to_sales_map = {}
    /\ mapping_product_union = <<p29, p72, p29_1002>>
    /\ mapping_store_union = <<s2, s3, s2_1002>>
    /\ dim_product = DimProductPriced
    /\ silver_sales_daily = NotBuilt
    /\ fact_daily = NotBuilt

\* nothing given to a merge node, nothing merged
MergeIdle == bronze_frames = <<>> /\ bronze_merged = NotBuilt /\ clock = 0

\* no raw mapping tables, nothing unified
UnionIdle ==
    /\ raw_mappings = [entity |-> "none", tables |-> <<>>]
    /\ mapping_unified = NotBuilt

\* no raw source, nothing normalized
NormalizeIdle == raw_source = NoSource /\ bronze_normalized = NotBuilt

\* the full store dimension, no view built
ViewsIdle ==
    /\ dim_store = {ds2, ds3, dsNA}
    /\ view_features_ml_daily = NotBuilt
    /\ view_app_daily = NotBuilt

\* no silver dimension, no node run, no raw rows
RestIdle ==
    /\ silver_products = <<>>
    /\ silver_stores = <<>>
    /\ nodes_run = {}
    /\ raw_payload = NoPayload
    /\ bronze_rows = NotBuilt

\* the datasets outside the fact pipeline, untouched
OthersIdle == MergeIdle /\ UnionIdle /\ NormalizeIdle /\ ViewsIdle /\ RestIdle

\* The whole fact pipeline: unit sales of both products at store "2", unit
\* deliveries of the pack SKU at both stores.
Init ==
    /\ bronze_sales_all = {}
    /\ bronze_deliveries_all = {}
    /\ map_delivery2sales \in {{}, {m29}}
    /\ delivery_to_sales_map = map_delivery2sales
    /\ mapping_product_union \in ProductMappingTables
    /\ mapping_store_union \in StoreMappingTables
    /\ dim_product \in DimProductTables
    /\ silver_sales_daily = NotBuilt
    /\ fact_daily = NotBuilt
    /\ OthersIdle

Next ==
    \/ MergeBronzeSales(SalesRowsOf({"2"}, {1}))
    \/ MergeBronzeDeliveries({ r \in DeliveryRowsOf(Stores, {1}) :
                                 r.number_product = "29" })
    \/ SilverBuildSalesDaily
    \/ GoldBuildFact

Spec == Init /\ [][Next]_vars

\* The silver fact builder on one store, both products, quantities 1 and 2.
InitSilver ==
    /\ bronze_sales_all = {}
    /\ bronze_deliveries_all = {}
    /\ map_delivery2sales \in Delivery2SalesTables
    /\ delivery_to_sales_map = {}
    /\ mapping_product_union \in {<<p29, p72, p29_1002>>, <<p72>>}
    /\ mapping_store_union = <<s2, s3, s2_1002>>
    /\ dim_product = DimProductPriced
    /\ silver_sales_daily = NotBuilt
    /\ fact_daily = NotBuilt
    /\ OthersIdle

NextSilver ==
    \/ MergeBronzeSales(SalesRowsOf({"2"}, Quantities))
    \/ MergeBronzeDeliveries(DeliveryRowsOf({"2"}, Quantities))
    \/ SilverBuildSalesDaily

SpecSilver == InitSilver /\ [][NextSilver]_vars

\* A bronze merge node on two per-customer tables.
InitMerge ==
    /\ PipelineIdle
    /\ bronze_frames \in [1 .. 2 -> Frames]
    /\ bronze_merged = NotBuilt
    /\ clock = 0
    /\ UnionIdle
    /\ NormalizeIdle
    /\ ViewsIdle
    /\ RestIdle

NextMerge == Tick \/ ConcatFramesWithMeta

SpecMerge == InitMerge /\ [][NextMerge]_vars

\* The mapping unions on three raw mapping tables of one entity that have
\* MaxMappingRows rows at most together.
InitUnion ==
    /\ PipelineIdle
    /\ MergeIdle
    /\ NormalizeIdle
    /\ ViewsIdle
    /\ RestIdle
    /\ \E entity \in {"product", "store"} :
       \E n \in [1 .. 3 -> 0 .. MaxMappingRows] :
           /\ n[1] + n[2] + n[3] <= MaxMappingRows
           /\ \E m1 \in RawMappingTables(entity, n[1]) :
              \E m2 \in RawMappingTables(entity, n[2]) :
              \E m3 \in RawMappingTables(entity, n[3]) :
                  raw_mappings = [entity |-> entity, tables |-> <<m1, m2, m3>>]
    /\ mapping_unified = NotBuilt

NextUnion == UnionMappingProduct \/ UnionMappingStore

SpecUnion == InitUnion /\ [][NextUnion]_vars

\* The bronze normalizers, each on every raw input it may be given.
InitNormalize ==
    /\ PipelineIdle
    /\ MergeIdle
    /\ UnionIdle
    /\ ViewsIdle
    /\ RestIdle
    /\ \E normalizer \in Normalizers :
          IF normalizer = "enrich_galaxy_products_with_prices_bronze"
          THEN \E products \in EnrichInputs(RawCols(normalizer)),
                  prices \in EnrichInputs(PricesCols) :
                  raw_source = [normalizer |-> normalizer, raw |-> products,
                                prices |-> prices]
          ELSE \E raw \in RawInputs(normalizer) :
                  raw_source = [normalizer |-> normalizer, raw |-> raw,
                                prices |-> RawNone]
    /\ bronze_normalized = NotBuilt

NextNormalize ==
    \/ NormalizeCosmosSales
    \/ NormalizeCosmosDeliveries
    \/ NormalizeCosmosProducts
    \/ NormalizeCosmosStores
    \/ FlattenGalaxyDeliveriesSales
    \/ NormalizeGalaxyPrices
    \/ NormalizeGalaxyProducts
    \/ ParseGalaxyStores
    \/ EnrichGalaxyProductsWithPrices

SpecNormalize == InitNormalize /\ [][NextNormalize]_vars

\* The fact pipeline on mapping tables that list a natural number twice.
InitJoins ==
    /\ bronze_sales_all = {}
    /\ bronze_deliveries_all = {}
    /\ map_delivery2sales \in {{m29}, {m29, m29dup}}
    /\ delivery_to_sales_map = map_delivery2sales
    /\ mapping_product_union \in {<<p29, p72, p29_1002>>, <<p29, p72, p29_again>>}
    /\ mapping_store_union \in {<<s2, s3, s2_1002>>, <<s2, s3, s2_again>>}
    /\ dim_product = DimProductPriced
    /\ silver_sales_daily = NotBuilt
    /\ fact_daily = NotBuilt
    /\ OthersIdle

SpecJoins == InitJoins /\ [][Next]_vars

\* The gold views on the fact of one product sold at store "2" and the pack
\* SKU delivered at both stores, with and without surrogate ids and
\* dimension rows.
InitViews ==
    /\ bronze_sales_all = {}
    /\ bronze_deliveries_all = {}
    /\ map_delivery2sales = {m29}
    /\ delivery_to_sales_map = map_delivery2sales
    /\ mapping_product_union \in {<<p29, p72, p29_1002>>, <<p72>>}
    /\ mapping_store_union \in StoreMappingTables
    /\ dim_product \in DimProductTables
    /\ silver_sales_daily = NotBuilt
    /\ fact_daily = NotBuilt
    /\ MergeIdle
    /\ UnionIdle
    /\ NormalizeIdle
    /\ dim_store \in DimStoreTables
    /\ view_features_ml_daily = NotBuilt
    /\ view_app_daily = NotBuilt
    /\ RestIdle

NextViews ==
    \/ MergeBronzeSales({ r \in SalesRowsOf({"2"}, {1}) : r.number_product = "72" })
    \/ MergeBronzeDeliveries({ r \in DeliveryRowsOf(Stores, {1}) :
                                 r.number_product = "29" })
    \/ SilverBuildSalesDaily
    \/ GoldBuildFact
    \/ BuildViewFeaturesMlDaily
    \/ BuildViewAppDaily

SpecViews == InitViews /\ [][NextViews]_vars

\* The dimension builders on a silver dimension of up to MaxDimRows versions.
InitDims ==
    /\ bronze_sales_all = {}
    /\ bronze_deliveries_all = {}
    /\ map_delivery2sales = {}
    /\ delivery_to_sales_map = {}
    /\ mapping_product_union = <<p29, p72, p29_1002>>
    /\ mapping_store_union = <<s2, s3, s2_1002>>
    /\ dim_product = {}
    /\ silver_sales_daily = NotBuilt
    /\ fact_daily = NotBuilt
    /\ MergeIdle
    /\ UnionIdle
    /\ NormalizeIdle
    /\ dim_store = {}
    /\ view_features_ml_daily = NotBuilt
    /\ view_app_daily = NotBuilt
    /\ \/ /\ silver_products \in SeqsUpTo(SilverProductRows, MaxDimRows) \ {<<>>}
          /\ silver_stores = <<>>
       \/ /\ silver_products = <<>>
          /\ silver_stores \in SeqsUpTo(SilverStoreRows, MaxDimRows) \ {<<>>}
    /\ nodes_run = {}
    /\ raw_payload = NoPayload
    /\ bronze_rows = NotBuilt

NextDims == BuildDimProduct \/ BuildDimStore

SpecDims == InitDims /\ [][NextDims]_vars

\* The declared node graph, run in any order the data dependencies allow.
InitGraph ==
    /\ PipelineIdle
    /\ MergeIdle
    /\ UnionIdle
    /\ NormalizeIdle
    /\ ViewsIdle
    /\ RestIdle

NextGraph == \E n \in DeclaredNodes : RunNode(n)

SpecGraph == InitGraph /\ [][NextGraph]_vars

RowsIdle ==
    /\ PipelineIdle /\ MergeIdle /\ UnionIdle /\ NormalizeIdle /\ ViewsIdle
    /\ silver_products = <<>> /\ silver_stores = <<>> /\ nodes_run = {}
    /\ bronze_rows = NotBuilt

InitCosmosSales ==
    /\ RowsIdle
    /\ \E raw \in Payloads(CosmosSalesRawRows), c \in CustomerIds :
           raw_payload = [normalizer |-> "normalize_cosmos_sales_bronze",
                          raw |-> raw, customer_id |-> c]

SpecCosmosSales == InitCosmosSales /\ [][NormalizeCosmosSalesRows]_vars

InitGalaxyPrices ==
    /\ RowsIdle
    /\ \E col \in {"Verkaufspreise", "payload"} :
       \E raw \in Payloads(GalaxyPricesRawRows(col)) :
           raw_payload = [normalizer |-> "normalize_galaxy_prices_bronze_daily",
                          raw |-> raw, customer_id |-> <<"1", "0", "0", "3">>]

SpecGalaxyPrices == InitGalaxyPrices /\ [][NormalizeGalaxyPricesRows]_vars

InitEnrich ==
    /\ RowsIdle
    /\ \E products \in Tables(GalaxyProductRows) \cup Tables(PricedProductRows),
          prices \in Tables(GalaxyPriceRows) :
           raw_payload = [normalizer |-> "enrich_galaxy_products_with_prices_bronze",
                          products_1003 |-> products, prices_1003 |-> prices]

SpecEnrich == InitEnrich /\ [][EnrichGalaxyProductsRows]_vars

InitFlatten ==
    /\ RowsIdle
    /\ \E raw \in Payloads(GalaxyDeliveriesSalesRawRows) :
           raw_payload = [normalizer |-> "flatten_galaxy_deliveries_sales_bronze",
                          raw |-> raw, customer_id |-> <<"1", "0", "0", "3">>]

SpecFlatten == InitFlatten /\ [][FlattenGalaxyDeliveriesSalesRows]_vars

\* ------------------------------------------------------------------ claims
SilverOk == silver_sales_daily.status = "ok"
SilverFact == silver_sales_daily.rows
GoldOk == fact_daily.status = "ok"
GoldRows == BagToSet(fact_daily.rows)

\* The clamped running balance as the specification states it:
\* rb_0 = max(0, net_0), rb_t = max(0, rb_(t-1) + delivery_t + return_t - sales_t).
RECURSIVE ClampedBalance(_, _)
ClampedBalance(g, r) ==
    LET net == r.delivery_qty + r.return_qty - r.sales_qty IN
    IF IsFirstRow(g, r) THEN Max(0, net)
    ELSE Max(0, ClampedBalance(g, PrevRow(g, r)) + net)

\* C1: in every (_customer_id, store, product) group of the silver fact, a
\* non-first row is flagged stockout iff the clamped running balance after the
\* previous row was 0 and the row's sales_qty is positive.
C1_StockoutIffPrevClampedBalanceZero ==
    SilverOk =>
        \A r \in SilverFact :
            LET g == GroupOf(SilverFact, r) IN
            ~ IsFirstRow(g, r) =>
                (r.stockout <=> (ClampedBalance(g, PrevRow(g, r)) = 0
                                 /\ r.sales_qty > 0))

\* C2: the running balance the stockout computation uses never tracks
\* backorder: when sales exceed the available balance it becomes 0, and on a
\* later day with a delivery of q units and no sales or returns, a balance of 0
\* rises to exactly q.
C2_BalanceNeverTracksBackorder ==
    SilverOk =>
        \A r \in SilverFact :
            LET g == GroupOf(SilverFact, r) IN
            ~ IsFirstRow(g, r) =>
                /\ (rb(g, PrevRow(g, r)) + r.delivery_qty + r.return_qty
                        < r.sales_qty) => rb(g, r) = 0
                /\ (rb(g, PrevRow(g, r)) = 0 /\ r.sales_qty = 0
                        /\ r.return_qty = 0) => rb(g, r) = r.delivery_qty

\* C3: the earliest-dated row of every (_customer_id, store, product) group of
\* the silver fact has stockout = false, whatever its quantities are.
C3_FirstDayNeverStockout ==
    SilverOk =>
        \A r \in SilverFact :
            IsFirstRow(GroupOf(SilverFact, r), r) => r.stockout = FALSE

\* C3 witness: a group whose first day sells with nothing delivered (the
\* formula alone would flag it) and whose later day is flagged.
C3_Witness ==
    /\ SilverOk
    /\ \E r, x \in SilverFact :
           /\ IsFirstRow(GroupOf(SilverFact, r), r)
           /\ r.sales_qty > 0 /\ r.delivery_qty = 0 /\ r.stockout = FALSE
           /\ x \in GroupOf(SilverFact, r) /\ x.stockout = TRUE

\* the stockout flag of every raw key of a silver fact
StockoutByRawKey(rows) == { <<keys_raw(r), r.stockout>> : r \in rows }

\* C4: the stockout flags do not depend on the surrogate-id mapping tables:
\* the same sales, deliveries and adjustment mapping with any other product
\* and store mapping give every raw key the same flag.
C4_StockoutIndependentOfMapping ==
    SilverOk =>
        \A mpu \in ProductMappingTables, msu \in StoreMappingTables :
            LET other == build_silver_sales_daily(bronze_sales_all,
                             bronze_deliveries_all, map_delivery2sales, mpu, msu)
            IN  /\ other.status = "ok"
                /\ StockoutByRawKey(other.rows) = StockoutByRawKey(SilverFact)

\* C4 witness: a fact with a flagged row and rows of two products, one of them
\* without a surrogate id under the mapping in use.
C4_Witness ==
    /\ SilverOk
    /\ \E r, x \in SilverFact :
           /\ r.stockout = TRUE
           /\ x.number_product # r.number_product
           /\ x.id_product = NA /\ r.id_product # NA

\* the product and quantity a bronze delivery row counts as, in the words of
\* the claim: the mapped sales product and quantity * factor where its
\* (_customer_id, number_product) is a delivery-side key, else unchanged
LandsOn(d, k) ==
    /\ d._customer_id = k._customer_id
    /\ d.number_store = k.number_store
    /\ d.target_date = k.target_date
    /\ \/ \E x \in map_delivery2sales :
              /\ x._customer_id = d._customer_id
              /\ x.number_product_delivery = d.number_product
              /\ x.number_product_sales = k.number_product
       \/ /\ ~ \E x \in map_delivery2sales :
                   /\ x._customer_id = d._customer_id
                   /\ x.number_product_delivery = d.number_product
          /\ d.number_product = k.number_product

CountsAs(d) ==
    IF \E x \in map_delivery2sales : /\ x._customer_id = d._customer_id
                                     /\ x.number_product_delivery = d.number_product
    THEN d.delivery_qty *
         (CHOOSE x \in map_delivery2sales :
              /\ x._customer_id = d._customer_id
              /\ x.number_product_delivery = d.number_product).factor
    ELSE d.delivery_qty

\* C9: every bronze delivery lands on a silver row (re-keyed to the mapped
\* sales product when matched), and the delivery_qty of every silver row is the
\* sum of the adjusted quantities of the bronze delivery rows landing on it.
C9_DeliveriesRekeyedAndSummed ==
    SilverOk =>
        /\ \A d \in bronze_deliveries_all :
               \E r \in SilverFact : LandsOn(d, keys_raw(r))
        /\ \A r \in SilverFact :
               r.delivery_qty =
                   SumQ({ [row |-> d, q |-> CountsAs(d)] :
                          d \in { x \in bronze_deliveries_all :
                                      LandsOn(x, keys_raw(r)) } })

\* C9 witness: a pack delivery and a direct delivery land on the same key.
C9_Witness ==
    /\ SilverOk
    /\ map_delivery2sales = {m29}
    /\ \E d, e \in bronze_deliveries_all :
           /\ d.number_product = "29" /\ e.number_product = "72"
           /\ d.number_store = e.number_store /\ d.target_date = e.target_date
           /\ \E r \in SilverFact :
                  /\ r.number_product = "72" /\ r.target_date = d.target_date
                  /\ r.delivery_qty = d.delivery_qty * Factor + e.delivery_qty

\* the raw keys of the aggregated sales and of the adjusted deliveries
ExpectedKeys ==
    { keys_raw(r) : r \in bronze_sales_all }
    \cup { k \in [_customer_id : Customers, number_store : Stores,
                  number_product : Products, target_date : Days] :
             \E d \in bronze_deliveries_all : LandsOn(d, k) }

\* C10: whenever the aggregated sales or adjusted deliveries hold a key (and
\* the adjustment mapping is a valid many-to-one table), the builder returns a
\* table with exactly one row per such key and no other row, sales_qty the sum
\* of the key's bronze sales (0 when it has none), return_qty 0.
C10_OneRowPerRawKey ==
    (silver_sales_daily # NotBuilt /\ ExpectedKeys # {}
     /\ RightKeysUnique(map_delivery2sales)) =>
        /\ SilverOk
        /\ { keys_raw(r) : r \in SilverFact } = ExpectedKeys
        /\ \A r, x \in SilverFact : keys_raw(r) = keys_raw(x) => r = x
        /\ \A r \in SilverFact :
               /\ r.return_qty = 0
               /\ r.sales_qty =
                      SumQ({ [row |-> s, q |-> s.sales_qty] :
                             s \in { x \in bronze_sales_all :
                                         keys_raw(x) = keys_raw(r) } })

\* C10 restricted to the runs that return a table (holds; shows the failure
\* of C10 is the failure to return one)
C10_WhenATableIsReturned ==
    SilverOk =>
        /\ { keys_raw(r) : r \in SilverFact } = ExpectedKeys
        /\ \A r, x \in SilverFact : keys_raw(r) = keys_raw(x) => r = x
        /\ \A r \in SilverFact :
               /\ r.return_qty = 0
               /\ r.sales_qty =
                      SumQ({ [row |-> s, q |-> s.sales_qty] :
                             s \in { x \in bronze_sales_all :
                                         keys_raw(x) = keys_raw(r) } })

\* ---- gold fact
\* the rows _dense_calendar is given: the silver rows with price, and the
\* pack-SKU rows
ObservedRows ==
    BagToSet(Base(SilverFact, dim_product))
    \cup (IF bronze_deliveries_all # {} /\ delivery_to_sales_map # {}
          THEN Extras(bronze_deliveries_all, delivery_to_sales_map,
                      mapping_product_union, mapping_store_union, dim_product)
          ELSE {})

SamePair(x, y) == x.id_store = y.id_store /\ x.id_product = y.id_product

ZeroMeasures(x) ==
    /\ x.sales_qty = 0 /\ x.return_qty = 0 /\ x.delivery_qty = 0
    /\ x.stockout = FALSE

\* C5: for every (id_store, id_product) pair of the silver fact the gold fact
\* has a row for every day from the pair's first to its last observed date.
C5_DenseCalendarNoGaps ==
    GoldOk =>
        \A a, b \in SilverFact :
            SamePair(a, b) =>
                \A d \in a.target_date .. b.target_date :
                    \E x \in GoldRows : SamePair(x, a) /\ x.target_date = d

\* C5 witness: a pair observed on day 1 and day 3 only, and its day-2 row.
C5_Witness ==
    /\ GoldOk
    /\ \E a, b \in SilverFact :
           /\ SamePair(a, b) /\ a.target_date = 1 /\ b.target_date = 3
           /\ ~ \E o \in ObservedRows : SamePair(o, a) /\ o.target_date = 2
           /\ \E x \in GoldRows : SamePair(x, a) /\ x.target_date = 2

\* C6: a gold row on a day without an observed row has zero measures,
\* stockout false and the price of the pair's observed rows; every silver row
\* is in the gold fact with its measures and stockout flag.
C6_GapRowsZeroObservedRowsKept ==
    GoldOk =>
        /\ \A x \in GoldRows :
               (~ \E o \in ObservedRows :
                      SamePair(o, x) /\ o.target_date = x.target_date) =>
                   /\ ZeroMeasures(x)
                   /\ \A o \in ObservedRows : SamePair(o, x) => x.price = o.price
        /\ \A r \in SilverFact :
               \E x \in GoldRows :
                   /\ SamePair(x, r) /\ x.target_date = r.target_date
                   /\ x.sales_qty = r.sales_qty /\ x.return_qty = r.return_qty
                   /\ x.delivery_qty = r.delivery_qty /\ x.stockout = r.stockout

\* C6 witness: an added row with a price, between an observed row that is
\* flagged stockout and an earlier one.
C6_Witness ==
    /\ GoldOk
    /\ \E x \in GoldRows :
           /\ ~ \E o \in ObservedRows :
                    SamePair(o, x) /\ o.target_date = x.target_date
           /\ x.price # NA
           /\ \E r \in SilverFact :
                  /\ SamePair(r, x) /\ r.stockout = TRUE
                  /\ r.target_date > x.target_date

\* the bronze deliveries of a delivery-side key of the gold builder's mapping
PackDeliveries ==
    { d \in bronze_deliveries_all :
        \E x \in delivery_to_sales_map :
            /\ x._customer_id = d._customer_id
            /\ x.number_product_delivery = d.number_product }

\* the pack product's own id and the store's id of a pack delivery
PackIdProduct(d) ==
    LookupId(pmap(mapping_product_union), "id_product", "number_product",
             d._customer_id, d.number_product)
PackIdStore(d) ==
    LookupId(smap(mapping_store_union), "id_store", "number_store",
             d._customer_id, d.number_store)
OfPackPair(x, d) == x.id_store = PackIdStore(d) /\ x.id_product = PackIdProduct(d)

PackRowPresent(d) ==
    \E x \in GoldRows :
        /\ OfPackPair(x, d)
        /\ x.target_date = d.target_date
        /\ x.sales_qty = 0 /\ x.return_qty = 0 /\ x.stockout = FALSE
        /\ x.delivery_qty =
               SumQ({ [row |-> e, q |-> e.delivery_qty] :
                      e \in { y \in bronze_deliveries_all :
                                  /\ y._customer_id = d._customer_id
                                  /\ y.number_store = d.number_store
                                  /\ y.number_product = d.number_product
                                  /\ y.target_date = d.target_date } })
        /\ x.price = PriceOf(dim_product, PackIdProduct(d))

\* C8: for every bronze delivery of a mapped pack SKU (with a surrogate id of
\* its own) the gold fact has a row under the pack product's id at that store
\* and date with sales_qty = return_qty = 0, stockout false, delivery_qty the
\* sum of the raw delivery quantities of that (store, pack product, date), and
\* the pack product's own price_current.
C8_PackRowPerDelivery ==
    GoldOk =>
        \A d \in PackDeliveries : PackIdProduct(d) # NA => PackRowPresent(d)

\* C8 where the store has a surrogate id too (holds)
C8_PackRowPerDeliveryAtMappedStore ==
    GoldOk =>
        \A d \in PackDeliveries :
            (PackIdProduct(d) # NA /\ PackIdStore(d) # NA) => PackRowPresent(d)

\* ---- silver fact, surrogate keys
\* C11: the silver fact has at most one row per (id_store, id_product,
\* target_date), also when stores or products have no surrogate id.
C11_SilverSurrogateKeyUnique ==
    SilverOk =>
        \A a, b \in SilverFact :
            (/\ a.id_store = b.id_store
             /\ a.id_product = b.id_product
             /\ a.target_date = b.target_date) => a = b

\* C11 where every store and product of the fact has a surrogate id (holds)
C11_SurrogateKeyUniqueWhenMapped ==
    SilverOk =>
        \A a, b \in SilverFact :
            (/\ a.id_store # NA /\ a.id_product # NA
             /\ a.id_store = b.id_store
             /\ a.id_product = b.id_product
             /\ a.target_date = b.target_date) => a = b

\* ---- bronze merge
MergedOk == bronze_merged.status = "ok"
MergedRows == bronze_merged.rows
\* the columns the merged rows were concatenated on
InputCols == bronze_merged.cols \ {"_ingest_ts", "_row_hash"}
\* the rows given to the merge, aligned on these columns
AllInputRows ==
    UNION { { Reindex(r, InputCols) : r \in Range(bronze_frames[f].rows) } :
            f \in DOMAIN bronze_frames }

\* the key of an input row: the texts of its key cells
KeyOf(r) ==
    <<astype_str("target_date", r["target_date"]),
      astype_str("number_store", r["number_store"]),
      astype_str("number_product", r["number_product"]),
      astype_str("_customer_id", r["_customer_id"])>>

NoKeyInCommon(a, b) ==
    \A x \in Range(a.rows), y \in Range(b.rows) : KeyOf(x) # KeyOf(y)

NoRowTwice(a) == \A i, j \in DOMAIN a.rows : a.rows[i] = a.rows[j] => i = j

\* merged row out is input row x, dtypes made canonical
IsMergedFrom(out, x) == \A c \in DOMAIN x : out[c] = canonical(c, x[c])

\* different input rows are both in the merged table
BothKept ==
    \A x, y \in AllInputRows :
        x # y =>
            \E i, j \in DOMAIN MergedRows :
                i # j /\ IsMergedFrom(MergedRows[i], x) /\ IsMergedFrom(MergedRows[j], y)

\* C12 (as claimed): for two non-empty tables with no key in common the
\* merged row count is the sum of the two row counts; rows that agree on the
\* key columns but differ in another column are both kept.
C12_RowCountIsSumOfInputs ==
    MergedOk =>
        /\ (/\ bronze_frames[1].rows # <<>> /\ bronze_frames[2].rows # <<>>
            /\ NoKeyInCommon(bronze_frames[1], bronze_frames[2])) =>
               Len(MergedRows) = Len(bronze_frames[1].rows) + Len(bronze_frames[2].rows)
        /\ BothKept

\* C12 (amended): the merged row count is the number of distinct input rows
\* (rows equal in every column count once); it is the sum of the two row
\* counts for two non-empty tables with no key in common that do not hold a
\* row twice; rows that differ in any column are both kept.
C12_RowCountIsDistinctInputRows ==
    MergedOk =>
        /\ Len(MergedRows) = Cardinality(AllInputRows)
        /\ (/\ bronze_frames[1].rows # <<>> /\ bronze_frames[2].rows # <<>>
            /\ NoKeyInCommon(bronze_frames[1], bronze_frames[2])
            /\ NoRowTwice(bronze_frames[1]) /\ NoRowTwice(bronze_frames[2])) =>
               Len(MergedRows) = Len(bronze_frames[1].rows) + Len(bronze_frames[2].rows)
        /\ BothKept

\* C12 witness: two non-empty tables with no key in common, one of them with
\* the same row twice, merged into fewer rows than the two tables have.
C12_Witness ==
    /\ MergedOk
    /\ bronze_frames[1].rows # <<>> /\ bronze_frames[2].rows # <<>>
    /\ NoKeyInCommon(bronze_frames[1], bronze_frames[2])
    /\ ~ NoRowTwice(bronze_frames[1])
    /\ Len(MergedRows) < Len(bronze_frames[1].rows) + Len(bronze_frames[2].rows)

\* C13: all rows of one merge carry the same _ingest_ts.
C13_OneIngestTsPerMerge ==
    MergedOk =>
        \A i, j \in DOMAIN MergedRows :
            MergedRows[i]["_ingest_ts"] = MergedRows[j]["_ingest_ts"]

\* C13 witness: a merge of several rows, run after the clock has advanced.
C13_Witness ==
    /\ MergedOk
    /\ Len(MergedRows) >= 2
    /\ MergedRows[1]["_ingest_ts"].v > 0

\* the multiset of the _row_hash values of a table
HashBag(rows) ==
    [h \in { rows[i]["_row_hash"] : i \in DOMAIN rows } |->
        Cardinality({ i \in DOMAIN rows : rows[i]["_row_hash"] = h })]

Perms(n) == { q \in [1 .. n -> 1 .. n] : \A i, j \in 1 .. n : q[i] = q[j] => i = j }

Shuffled(f, q) == [f EXCEPT !.rows = [i \in DOMAIN f.rows |-> f.rows[q[i]]]]

\* the texts of the key cells of a merged row
KeyTexts(r) ==
    LET key_cols == pick_key_cols(InputCols)
    IN  [k \in DOMAIN key_cols |-> astype_str(key_cols[k], r[key_cols[k]])]

\* C14: a later merge of the same rows in another order gives the same
\* multiset of _row_hash values, and merged rows with the same key texts have
\* the same _row_hash.
C14_RowHashDeterministic ==
    (MergedOk /\ "_row_hash" \in bronze_merged.cols) =>
        /\ LET hashes == HashBag(MergedRows) IN
           \A q1 \in Perms(Len(bronze_frames[1].rows)) :
           \A q2 \in Perms(Len(bronze_frames[2].rows)) :
               LET f1 == Shuffled(bronze_frames[1], q1)
                   f2 == Shuffled(bronze_frames[2], q2)
               IN  /\ HashBag(concat_frames_with_meta(<<f1, f2>>, clock).rows) = hashes
                   /\ HashBag(concat_frames_with_meta(<<f2, f1>>, clock).rows) = hashes
        /\ \A i, j \in DOMAIN MergedRows :
               KeyTexts(MergedRows[i]) = KeyTexts(MergedRows[j]) =>
                   MergedRows[i]["_row_hash"] = MergedRows[j]["_row_hash"]

\* C14 witness: a merged table with two different fingerprints and two rows
\* of one fingerprint, from tables whose rows can be reordered.
C14_Witness ==
    /\ MergedOk /\ "_row_hash" \in bronze_merged.cols
    /\ Len(bronze_frames[1].rows) >= 2
    /\ bronze_frames[1].rows[1] # bronze_frames[1].rows[2]
    /\ \E i, j \in DOMAIN MergedRows :
           MergedRows[i]["_row_hash"] # MergedRows[j]["_row_hash"]
    /\ \E i, j \in DOMAIN MergedRows :
           i # j /\ MergedRows[i]["_row_hash"] = MergedRows[j]["_row_hash"]

\* ---- mapping unions
UnifiedOk == mapping_unified.status = "ok"
UnifiedRows == mapping_unified.rows
IdCol == IdColOf(raw_mappings.entity)
NumCol == NumColOf(raw_mappings.entity)
\* the rows of the raw mapping tables
RawRows ==
    UNION { Range(raw_mappings.tables[k].rows) : k \in DOMAIN raw_mappings.tables }

\* C15: the unified mapping has one row per (_customer_id, natural number),
\* also when a natural number of a customer is listed with two surrogate ids.
C15_OneRowPerCustomerAndNumber ==
    UnifiedOk =>
        \A i, j \in DOMAIN UnifiedRows :
            (/\ UnifiedRows[i]["_customer_id"] = UnifiedRows[j]["_customer_id"]
             /\ UnifiedRows[i][NumCol] = UnifiedRows[j][NumCol]) => i = j

\* C15 where no natural number of a customer comes with two ids (holds)
C15_OneRowPerPairWhenIdsAgree ==
    (/\ UnifiedOk
     /\ \A x, y \in RawRows :
            (/\ derive_customer_from_id(int64(x[IdCol]))
                    = derive_customer_from_id(int64(y[IdCol]))
             /\ int64(x[NumCol]) = int64(y[NumCol]))
                => int64(x[IdCol]) = int64(y[IdCol])) =>
        \A i, j \in DOMAIN UnifiedRows :
            (/\ UnifiedRows[i]["_customer_id"] = UnifiedRows[j]["_customer_id"]
             /\ UnifiedRows[i][NumCol] = UnifiedRows[j][NumCol]) => i = j

\* a text without leading zeros that denotes a number
IsNormalForm(s) ==
    /\ s # <<>> /\ \A i \in DOMAIN s : IsDigit(s[i])
    /\ (Len(s) > 1 => s[1] # "0")

\* the number a raw cell stands for
ValueOf(x) == IF x.t = "num" THEN x.n ELSE ParseDigits(x.s)

\* C16: in the unified mapping _customer_id is the first 4 characters of the
\* decimal string of the surrogate id, the natural number is a text in
\* number-normalized form, and raw rows that differ only in the formatting of
\* the natural number come out as one row.
C16_CustomerFromIdAndNumberNormalized ==
    UnifiedOk =>
        /\ \A i \in DOMAIN UnifiedRows :
               LET id == DecimalString(UnifiedRows[i][IdCol]) IN
               /\ \A k \in 1 .. 4 :
                      k <= Len(id) => UnifiedRows[i]["_customer_id"][k] = id[k]
               /\ Len(UnifiedRows[i]["_customer_id"]) = (IF Len(id) < 4 THEN Len(id) ELSE 4)
               /\ IsNormalForm(UnifiedRows[i][NumCol])
        /\ \A x, y \in RawRows :
               (/\ ValueOf(x[IdCol]) = ValueOf(y[IdCol])
                /\ ValueOf(x[NumCol]) = ValueOf(y[NumCol])) =>
                   Cardinality({ i \in DOMAIN UnifiedRows :
                                   /\ UnifiedRows[i][IdCol] = ValueOf(x[IdCol])
                                   /\ ParseDigits(UnifiedRows[i][NumCol])
                                          = ValueOf(x[NumCol]) }) = 1

\* C16 witness: natural number 29 of one id given as 29 and as "029", unified
\* into one row with the text "29".
C16_Witness ==
    /\ UnifiedOk
    /\ \E x, y \in RawRows :
           /\ x[IdCol] = y[IdCol]
           /\ x[NumCol] = Num(29) /\ y[NumCol] = Text(<<"0", "2", "9">>)
    /\ Len(UnifiedRows) = 1
    /\ UnifiedRows[1][NumCol] = <<"2", "9">>
    /\ UnifiedRows[1]["_customer_id"] = <<"1", "0", "0", "1">>

\* a raw cell that is a number or a text of digits
IsNumeric(x) ==
    \/ x.t = "num"
    \/ x.t = "text" /\ x.s # <<>> /\ \A i \in DOMAIN x.s : IsDigit(x.s[i])

\* C17: if a surrogate id or a natural number of the raw tables cannot be
\* coerced to a number, the union fails and returns no table.
C17_UnionFailsOnBadNumber ==
    (/\ mapping_unified # NotBuilt
     /\ \E x \in RawRows : ~ IsNumeric(x[IdCol]) \/ ~ IsNumeric(x[NumCol]))
        => mapping_unified.status = "error"

\* C17 witness: a natural number that is no number beside a good row, and the
\* union failed.
C17_Witness ==
    /\ mapping_unified # NotBuilt
    /\ mapping_unified.status = "error"
    /\ \E x, y \in RawRows :
           /\ ~ IsNumeric(x[NumCol])
           /\ IsNumeric(y[NumCol]) /\ IsNumeric(y[IdCol])


\* ---- source normalizers
Normalized == bronze_normalized # NotBuilt
\* what the normalizer of the current source returns for a raw input
normalize(source) ==
    CASE source.normalizer = "normalize_cosmos_sales_bronze" ->
            normalize_cosmos_sales_bronze(source.raw)
      [] source.normalizer = "normalize_cosmos_deliveries_bronze" ->
            normalize_cosmos_deliveries_bronze(source.raw)
      [] source.normalizer = "normalize_cosmos_products_bronze" ->
            normalize_cosmos_products_bronze(source.raw)
      [] source.normalizer = "normalize_cosmos_stores_bronze" ->
            normalize_cosmos_stores_bronze(source.raw)
      [] source.normalizer = "flatten_galaxy_deliveries_sales_bronze" ->
            flatten_galaxy_deliveries_sales_bronze(source.raw)
      [] source.normalizer = "normalize_galaxy_prices_bronze_daily" ->
            normalize_galaxy_prices_bronze_daily(source.raw)
      [] source.normalizer = "normalize_galaxy_products_bronze" ->
            normalize_galaxy_products_bronze(source.raw)
      [] source.normalizer = "parse_galaxy_stores_bronze" ->
            parse_galaxy_stores_bronze(source.raw)
      [] source.normalizer = "enrich_galaxy_products_with_prices_bronze" ->
            enrich_galaxy_products_with_prices_bronze(source.raw, source.prices)
\* the raw inputs of the current normalizer
SourcesOfNormalizer ==
    IF raw_source.normalizer = "enrich_galaxy_products_with_prices_bronze"
    THEN { [normalizer |-> raw_source.normalizer, raw |-> products, prices |-> prices] :
             products \in EnrichInputs(RawCols(raw_source.normalizer)),
             prices \in EnrichInputs(PricesCols) }
    ELSE { [normalizer |-> raw_source.normalizer, raw |-> raw, prices |-> RawNone] :
             raw \in RawInputs(raw_source.normalizer) }
\* None, an empty table, an empty mapping, a mapping of empty tables
IsAbsentOrEmpty(raw) ==
    \/ raw.kind = "None"
    \/ raw.kind = "DataFrame" /\ raw.table.cells = <<>>
    \/ raw.kind = "dict"
         /\ \A i \in DOMAIN raw.files : raw.files[i].none \/ raw.files[i].cells = <<>>
\* the column sets the current normalizer returns for its non-empty inputs
ColumnSetsForRows ==
    { normalize(s).cols : s \in { t \in SourcesOfNormalizer :
                                    /\ ~ IsAbsentOrEmpty(t.raw)
                                    /\ normalize(t).status = "ok" } }
EmptySchemaReturned ==
    /\ bronze_normalized.status = "ok"
    /\ bronze_normalized.len = 0
    /\ ColumnSetsForRows = {bronze_normalized.cols}

\* C18: every source normalizer, given an empty or absent input (None, an
\* empty table, an empty mapping, a mapping whose tables are all empty),
\* returns without error a zero-row table with exactly the column set it
\* returns for non-empty input.
C18_EmptyInputGivesEmptySchema ==
    (Normalized /\ IsAbsentOrEmpty(raw_source.raw)) => EmptySchemaReturned

\* C18, supporting: the same for every input but None given to
\* flatten_galaxy_deliveries_sales_bronze.
C18_EmptySchemaExceptFlattenOfNone ==
    ( /\ Normalized
      /\ IsAbsentOrEmpty(raw_source.raw)
      /\ ~ ( raw_source.normalizer = "flatten_galaxy_deliveries_sales_bronze"
             /\ raw_source.raw.kind = "None" ) )
    => EmptySchemaReturned

\* C18, supporting: None given to flatten_galaxy_deliveries_sales_bronze
\* raises AttributeError.
C18_FlattenOfNoneRaises ==
    ( /\ Normalized
      /\ raw_source.normalizer = "flatten_galaxy_deliveries_sales_bronze"
      /\ raw_source.raw.kind = "None" )
    => bronze_normalized = Raised("AttributeError")

\* ---- many-to-one joins
\* two rows of a mapping table with the same (_customer_id, natural number)
HasDuplicateKey(tbl, numcol) ==
    \E i, j \in DOMAIN tbl :
        /\ i < j
        /\ tbl[i]._customer_id = tbl[j]._customer_id
        /\ tbl[i][numcol] = tbl[j][numcol]
DuplicateMappingKey ==
    \/ HasDuplicateKey(mapping_product_union, "number_product")
    \/ HasDuplicateKey(mapping_store_union, "number_store")
SilverBuilt == silver_sales_daily # NotBuilt
FactBuilt == fact_daily # NotBuilt

\* C19: the many-to-one joins of the silver and gold builders raise when the
\* right side has two rows with the same join key; build_silver_sales_daily
\* and build_fact_daily_store_product raise when the product or store mapping
\* has two rows for the same (_customer_id, natural number).
C19_DuplicateMappingKeyRaises ==
    DuplicateMappingKey =>
        /\ SilverBuilt => silver_sales_daily.status = "error"
        /\ FactBuilt => fact_daily.status = "error"

\* C19, supporting: with a duplicate mapping key and deliveries present, the
\* silver fact is built, and every row of the duplicated product or store
\* carries the surrogate id of the last mapping row.
C19_LastMappingRowWins ==
    ( /\ DuplicateMappingKey
      /\ SilverBuilt
      /\ bronze_deliveries_all # {}
      /\ RightKeysUnique(map_delivery2sales) )
    => /\ silver_sales_daily.status = "ok"
       /\ \A r \in silver_sales_daily.rows :
             /\ ( /\ mapping_product_union[3] = p29_again
                  /\ r._customer_id = "1001" /\ r.number_product = "29" )
                => r.id_product = p29_again.id_product
             /\ ( /\ mapping_store_union[3] = s2_again
                  /\ r._customer_id = "1001" /\ r.number_store = "2" )
                => r.id_store = s2_again.id_store

\* C19, supporting: the joins on the delivery-to-sales map, whose right side
\* is not deduplicated first, raise on a duplicate key.
C19_DuplicateDeliveryMapRaises ==
    ( /\ ~ RightKeysUnique(map_delivery2sales)
      /\ SilverBuilt
      /\ bronze_deliveries_all # {} )
    => silver_sales_daily = [status |-> "error", error |-> "MergeError"]

\* ---- views
MlBuilt == view_features_ml_daily # NotBuilt
AppBuilt == view_app_daily # NotBuilt
FactRows == fact_daily.rows
\* the number of rows of a bag of rows
RowCount(bag) == SumQ({ [row |-> r, q |-> bag[r]] : r \in DOMAIN bag })
\* the fact columns of a view_app_daily row
FactColumns(y) ==
    [id_product |-> y.id_product, id_store |-> y.id_store,
     target_date |-> y.target_date, sales_qty |-> y.sales_qty,
     return_qty |-> y.return_qty, delivery_qty |-> y.delivery_qty,
     stockout |-> y.stockout, price |-> y.price]
\* the five feature columns of a fact row
Features(r) ==
    [id_product |-> r.id_product, id_store |-> r.id_store,
     target_date |-> r.target_date, sales_qty |-> r.sales_qty,
     stockout |-> r.stockout]
NoProductMatch(id) == \A x \in dim_product : x.id_product # id
NoStoreMatch(id) == \A x \in dim_store : x.id_store # id
AppViewKeepsFactRows ==
    /\ view_app_daily.status = "ok"
    /\ RowCount(view_app_daily.rows) = RowCount(FactRows)
    /\ \A r \in DOMAIN FactRows :
          RowCount([y \in { z \in DOMAIN view_app_daily.rows : FactColumns(z) = r }
                       |-> view_app_daily.rows[y]]) = FactRows[r]
    /\ \A y \in DOMAIN view_app_daily.rows :
          /\ NoProductMatch(y.id_product)
                => y.product_name = NA /\ y.number_product = NA /\ y.moq = NA
          /\ NoStoreMatch(y.id_store)
                => y.number_store = NA /\ y.store_name = NA /\ y.store_address = NA
MlViewKeepsFactRows ==
    /\ view_features_ml_daily.status = "ok"
    /\ RowCount(view_features_ml_daily.rows) = RowCount(FactRows)
    /\ \A y \in DOMAIN view_features_ml_daily.rows :
          view_features_ml_daily.rows[y]
              = RowCount([r \in { z \in DOMAIN FactRows : Features(z) = y }
                             |-> FactRows[r]])

\* C20: the view builders neither drop nor add fact rows: build_view_app_daily
\* returns one row per gold fact row, with the product and store attributes
\* null where the row's id has no match in the dimension, and
\* build_view_features_ml_daily returns one row per gold fact row with
\* id_product, id_store, target_date, sales_qty and stockout unchanged.
C20_ViewsKeepFactRows ==
    /\ AppBuilt => AppViewKeepsFactRows
    /\ MlBuilt => MlViewKeepsFactRows

\* C20, witness: both views built on a fact with a row whose product and
\* whose store have no dimension row, and a row whose product and store have.
C20_Witness ==
    /\ AppBuilt /\ MlBuilt
    /\ \E r \in DOMAIN FactRows :
          NoProductMatch(r.id_product) /\ NoStoreMatch(r.id_store)
    /\ \E r \in DOMAIN FactRows :
          ~ NoProductMatch(r.id_product) /\ ~ NoStoreMatch(r.id_store)

\* ---- dimension builders
\* the silver dimension given and the dimension built from it
DimBuilt == dim_product # {} \/ dim_store # {}
SilverDim == IF silver_products # <<>> THEN silver_products ELSE silver_stores
IdOf(r) == IF silver_products # <<>> THEN r.id_product ELSE r.id_store
NameOf(r) == IF silver_products # <<>> THEN r.product_name ELSE r.store_name
GoldDim == IF silver_products # <<>> THEN dim_product ELSE dim_store
\* position i holds the version of its id with the greatest _ingest_ts, the
\* last of them in the table
IsLatest(i) ==
    \A j \in DOMAIN SilverDim :
        IdOf(SilverDim[j]) = IdOf(SilverDim[i]) =>
            /\ SilverDim[j]._ingest_ts <= SilverDim[i]._ingest_ts
            /\ SilverDim[j]._ingest_ts = SilverDim[i]._ingest_ts => j <= i

\* C21: build_dim_product and build_dim_store return exactly one row per
\* distinct surrogate id of the silver dimension, and that row carries the
\* attributes of the silver row with the maximum _ingest_ts of the id (among
\* equal timestamps, the last in table order).
C21_DimKeepsLatestPerId ==
    DimBuilt =>
        /\ { IdOf(x) : x \in GoldDim } = { IdOf(SilverDim[i]) : i \in DOMAIN SilverDim }
        /\ \A x, y \in GoldDim : IdOf(x) = IdOf(y) => x = y
        /\ \A x \in GoldDim :
             \E i \in DOMAIN SilverDim :
                 /\ IsLatest(i)
                 /\ IdOf(SilverDim[i]) = IdOf(x)
                 /\ NameOf(SilverDim[i]) = NameOf(x)

\* C21, witness: a product dimension built from two versions of one id, the
\* later one first in the table
C21_Witness ==
    /\ dim_product # {}
    /\ Len(silver_products) = 2
    /\ silver_products[1].id_product = silver_products[2].id_product
    /\ silver_products[1]._ingest_ts > silver_products[2]._ingest_ts
    /\ silver_products[1].product_name # silver_products[2].product_name

\* ---- node graph
\* the unified mapping tables count as mapping tables
MappingTables == {"mapping_product_union", "mapping_store_union"}
ReadsPriorTier(n, d) ==
    \/ DatasetTier(d) = "external"
    \/ d \in MappingTables
    \/ n.tier = "bronze"
    \/ n.tier = "silver" /\ DatasetTier(d) = "bronze"
    \/ n.tier = "gold" /\ DatasetTier(d) \in {"silver", "gold"}
NodesThatRan == { n \in DeclaredNodes : n.name \in nodes_run }

\* C22: every node reads only datasets of the tier before its own (silver
\* nodes bronze outputs, gold nodes silver or gold outputs) plus raw mapping
\* tables and parameters; no gold node reads a bronze dataset.
C22_NodesReadPriorTier ==
    \A n \in NodesThatRan : \A d \in n.inputs : ReadsPriorTier(n, d)

\* C22, supporting: every read but that of bronze.deliveries_all by
\* gold_build_fact is of the tier before.
C22_OnlyFactReadsBronze ==
    \A n \in NodesThatRan : \A d \in n.inputs :
        ReadsPriorTier(n, d)
            \/ (n.name = "gold_build_fact" /\ d = "bronze.deliveries_all")

\* C22, supporting: gold_build_fact runs and reads a bronze dataset.
C22_FactNodeReadsBronze ==
    "gold_build_fact" \in nodes_run =>
        \E n \in NodesThatRan :
            /\ n.tier = "gold"
            /\ \E d \in n.inputs : DatasetTier(d) = "bronze"

\* the raw rows of a payload in the order the files are read
PayloadRows(raw) ==
    IF raw.kind = "dict" THEN raw.files[1] \o raw.files[2] ELSE raw.rows

\* the number a raw quantity cell stands for, a missing one counting nothing
QuantityValue(x) ==
    IF x.t = "num" THEN x.n ELSE IF x.t = "text" THEN ParseDigits(x.s) ELSE 0

CosmosSalesReturned ==
    /\ raw_payload.normalizer = "normalize_cosmos_sales_bronze"
    /\ bronze_rows.status = "ok"

\* C23: normalize_cosmos_sales_bronze returns one row per row of the input
\* tables, every row with _customer_id equal to the customer_id argument and
\* sales_qty equal to the number in the configured quantity column of its
\* input row (so the total is kept), under the columns target_date,
\* number_store, number_product, sales_qty, _customer_id, _source_file in
\* that order.
C23_CosmosSalesRowPerInputRow ==
    CosmosSalesReturned =>
        LET given == PayloadRows(raw_payload.raw)
            out == bronze_rows.rows
        IN  /\ Len(out) = Len(given)
            /\ \A i \in DOMAIN out :
                   /\ out[i]["_customer_id"] = Text(raw_payload.customer_id)
                   /\ out[i]["sales_qty"] = Num(QuantityValue(given[i]["VK-Menge"]))
                   /\ DOMAIN out[i] = Range(bronze_rows.cols)
            /\ SumCells([i \in DOMAIN out |-> out[i]["sales_qty"].n])
                   = SumCells([i \in DOMAIN given |-> QuantityValue(given[i]["VK-Menge"])])
            /\ bronze_rows.cols = <<"target_date", "number_store", "number_product",
                                    "sales_qty", "_customer_id", "_source_file">>

\* the two rows of one file, 173 and 47, give two rows that sum to 220
C23_Witness ==
    /\ CosmosSalesReturned
    /\ raw_payload.raw.kind = "dict"
    /\ raw_payload.customer_id = <<"1", "0", "0", "1">>
    /\ Len(bronze_rows.rows) = 2
    /\ bronze_rows.rows[1]["sales_qty"] = Num(173)
    /\ bronze_rows.rows[2]["sales_qty"] = Num(47)
    /\ SumCells([i \in DOMAIN bronze_rows.rows |-> bronze_rows.rows[i]["sales_qty"].n]) = 220

GalaxyPricesRan ==
    /\ raw_payload.normalizer = "normalize_galaxy_prices_bronze_daily"
    /\ bronze_rows # NotBuilt

\* the price objects a cell under the wrapper key holds: the elements of a
\* list, a dict with the two fields, the list a dict wraps under the same
\* key, or what a JSON string of one of these holds
PriceObjectsUnderWrapper(v) ==
    LET direct(x) == x.t = "dict" /\ {"ArtikelNummer", "ArtikelPreis"} \subseteq DOMAIN x.d
        wrapped(x) == /\ x.t = "dict" /\ ~ direct(x)
                      /\ "Verkaufspreise" \in DOMAIN x.d
                      /\ x.d["Verkaufspreise"].t = "list"
        of(x) == IF x.t = "list" THEN x.items
                 ELSE IF direct(x) THEN <<x.d>>
                 ELSE IF wrapped(x) THEN x.d["Verkaufspreise"].items
                 ELSE <<>>
    IN  IF v.t = "json_str" THEN of(v.json) ELSE of(v)

RECURSIVE PriceObjectsInOrder(_, _)
PriceObjectsInOrder(rows, col) ==
    IF rows = <<>> THEN <<>>
    ELSE (IF col = "Verkaufspreise" THEN PriceObjectsUnderWrapper(Head(rows)[col])
          \* in a column of another name: the list a dict wraps under the key
          ELSE IF /\ Head(rows)[col].t = "dict"
                  /\ "Verkaufspreise" \in DOMAIN Head(rows)[col].d
          THEN Head(rows)[col].d["Verkaufspreise"].items
          ELSE <<>>)
         \o PriceObjectsInOrder(Tail(rows), col)

PayloadColumn(raw) ==
    CHOOSE c \in {"Verkaufspreise", "payload"} :
        \A i \in DOMAIN PayloadRows(raw) : c \in DOMAIN PayloadRows(raw)[i]

\* C24: for a non-empty raw table, normalize_galaxy_prices_bronze_daily
\* returns one row per price object held under the wrapper key (in a list
\* cell, a dict cell with the fields, a dict cell wrapping the list under the
\* same key, or a JSON string of one of these), in payload order, with
\* number_product a string, price a number and target_date null; when no
\* extraction path yields an item it raises a KeyError naming the wrapper key
\* and the columns seen, and never returns an empty table.
C24_GalaxyPricesRowPerObject ==
    (GalaxyPricesRan /\ PayloadRows(raw_payload.raw) # <<>>) =>
        LET given == PayloadRows(raw_payload.raw)
            col == PayloadColumn(raw_payload.raw)
            objects == PriceObjectsInOrder(given, col)
            out == bronze_rows.rows
        IN  IF objects = <<>>
            THEN /\ bronze_rows.status = "error"
                 /\ bronze_rows.error = "KeyError"
                 /\ bronze_rows.wrapper = "Verkaufspreise"
                 /\ col \in Range(bronze_rows.columns)
            ELSE /\ bronze_rows.status = "ok"
                 /\ Len(out) = Len(objects)
                 /\ \A i \in DOMAIN out :
                        /\ out[i].number_product.t = "text"
                        /\ out[i].number_product.s
                               = astype_str_value(objects[i]["ArtikelNummer"])
                        /\ out[i].price.t = "num"
                        /\ out[i].price.n
                               = (IF objects[i]["ArtikelNummer"] = Num(1088)
                                  THEN 349 ELSE 299)
                        /\ out[i].target_date = Missing

\* the wrapper key names a column whose cell is a JSON string of the dict
\* that wraps the list: two rows, 2.99 and 3.49
C24_Witness ==
    /\ GalaxyPricesRan
    /\ \E i \in DOMAIN PayloadRows(raw_payload.raw) :
           /\ "Verkaufspreise" \in DOMAIN PayloadRows(raw_payload.raw)[i]
           /\ PayloadRows(raw_payload.raw)[i]["Verkaufspreise"].t = "json_str"
    /\ bronze_rows.status = "ok"
    /\ Len(bronze_rows.rows) = 2
    /\ bronze_rows.rows[1].price = Num(299)
    /\ bronze_rows.rows[2].price = Num(349)

\* a table whose cells hold no price object makes the normalizer raise
C24_WitnessNoItems ==
    /\ GalaxyPricesRan
    /\ PayloadRows(raw_payload.raw) # <<>>
    /\ bronze_rows.status = "error"

EnrichReturned ==
    /\ raw_payload.normalizer = "enrich_galaxy_products_with_prices_bronze"
    /\ bronze_rows.status = "ok"

\* the product's own price, null without one
OwnPrice(r) == IF "price" \in DOMAIN r THEN r["price"] ELSE Missing

\* the values the prices table holds for the product of row r
TablePrices(r) ==
    LET pr == raw_payload.prices_1003.rows
    IN  { pr[k]["price"] : k \in PricesUnder(pr, r) }

\* C25: in the table enrich_galaxy_products_with_prices_bronze returns there
\* is one row per product row of the input, in the same order; its price is
\* the product's own price when that is present, else the value the prices
\* table holds for the same (number_product, _customer_id), and null when
\* neither side has one.
C25_OwnPriceWins ==
    EnrichReturned =>
        LET given == raw_payload.products_1003.rows
            out == bronze_rows.rows
        IN  /\ Len(out) = Len(given)
            /\ \A i \in DOMAIN out :
                   /\ out[i]["number_product"] = given[i]["number_product"]
                   /\ OwnPrice(given[i]) # Missing => out[i]["price"] = OwnPrice(given[i])
                   /\ OwnPrice(given[i]) = Missing =>
                          \/ out[i]["price"] \in TablePrices(given[i])
                          \/ TablePrices(given[i]) = {} /\ out[i]["price"] = Missing

\* the prices table never gives a product two prices: a repeated key is fatal
C25_RepeatedPriceKeyRaises ==
    ( /\ raw_payload.normalizer = "enrich_galaxy_products_with_prices_bronze"
      /\ bronze_rows # NotBuilt
      /\ raw_payload.products_1003.rows # <<>>
      /\ RightKeysRepeat(raw_payload.prices_1003.rows) )
    => bronze_rows = Raised("MergeError")

\* one product keeps its own 1.99 although the table says 2.99, another
\* without a price of its own takes the table's
C25_Witness ==
    /\ EnrichReturned
    /\ \E i, j \in DOMAIN bronze_rows.rows :
           /\ OwnPrice(raw_payload.products_1003.rows[i]) = Num(199)
           /\ TablePrices(raw_payload.products_1003.rows[i]) = {Num(299)}
           /\ bronze_rows.rows[i]["price"] = Num(199)
           /\ OwnPrice(raw_payload.products_1003.rows[j]) = Missing
           /\ TablePrices(raw_payload.products_1003.rows[j]) = {Num(349)}
           /\ bronze_rows.rows[j]["price"] = Num(349)

MetadataColumns == {"_ingest_ts", "_row_hash"}

EqualButMetadata(r, s) ==
    \A c \in (DOMAIN r) \ MetadataColumns : r[c] = s[c]

\* C26: the table concat_frames_with_meta returns has no two rows equal on
\* every column other than the metadata columns, also when two input tables
\* write the same value in different types.
C26_NoDuplicateRows ==
    MergedOk =>
        \A i, j \in DOMAIN MergedRows :
            i # j => ~ EqualButMetadata(MergedRows[i], MergedRows[j])

\* rows that were equal cell by cell, type included, when the tables were
\* concatenated are in the result once
C26_SameTypeDuplicatesRemoved ==
    MergedOk =>
        \A i, j \in DOMAIN MergedRows :
            (i # j /\ EqualButMetadata(MergedRows[i], MergedRows[j])) =>
                \E k, l \in 1 .. 2 :
                    \E a \in Range(bronze_frames[k].rows), b \in Range(bronze_frames[l].rows) :
                        /\ a["number_store"] = IntVal("2")
                        /\ b["number_store"] = StrVal("2")

\* the store number 2 as an integer in one table and as a text in the other:
\* the two rows stay and come out as the same row
C26_IntAndTextStoreBothKept ==
    /\ MergedOk
    /\ \E i, j \in DOMAIN MergedRows :
           /\ i # j
           /\ EqualButMetadata(MergedRows[i], MergedRows[j])
           /\ MergedRows[i]["number_store"] = StrVal("2")

FlattenReturned ==
    /\ raw_payload.normalizer = "flatten_galaxy_deliveries_sales_bronze"
    /\ bronze_rows.status = "ok"

\* per history element of the payload, in reading order, the store
\* sub-record that holds it and the file it came from
RECURSIVE LeavesOfStores(_, _)
LeavesOfStores(stores, file) ==
    IF stores = <<>> THEN <<>>
    ELSE [k \in DOMAIN Head(stores).ArtikelHistory |->
             [store |-> Head(stores), file |-> file]]
         \o LeavesOfStores(Tail(stores), file)

RECURSIVE LeavesOfRecords(_, _)
LeavesOfRecords(records, file) ==
    IF records = <<>> THEN <<>>
    ELSE LeavesOfStores(Head(records)["Filiale"], file)
         \o LeavesOfRecords(Tail(records), file)

Leaves(raw) ==
    IF raw.kind = "dict"
    THEN LeavesOfRecords(raw.files[1], Text(<<FileNames[1]>>))
         \o LeavesOfRecords(raw.files[2], Text(<<FileNames[2]>>))
    ELSE LeavesOfRecords(raw.rows, Missing)

RowsMatchLeaves ==
    LET leaves == Leaves(raw_payload.raw)
        out == bronze_rows.rows
    IN  /\ Len(out) = Len(leaves)
        /\ \A i \in DOMAIN out :
               /\ out[i].number_store.s = DecimalString(leaves[i].store.FilialNummer.n)
               /\ out[i].target_date = Date(<<"2025", "08", "10">>)
               /\ out[i]._source_file = leaves[i].file

\* C27: the table flatten_galaxy_deliveries_sales_bronze returns has one row
\* per element of the history arrays of the payload, each with the store
\* number and the date of the store sub-record that holds the element and
\* the name of the file it came from.
C27_RowPerHistoryElement == FlattenReturned => RowsMatchLeaves

AllArraysFilled(raw) ==
    \A i \in DOMAIN PayloadRows(raw) :
        /\ PayloadRows(raw)[i]["Filiale"] # <<>>
        /\ \A k \in DOMAIN PayloadRows(raw)[i]["Filiale"] :
               PayloadRows(raw)[i]["Filiale"][k].ArtikelHistory # <<>>

\* with no empty array in the payload the rows are the history elements
C27_RowPerElementOfFilledArrays ==
    ( /\ raw_payload.normalizer = "flatten_galaxy_deliveries_sales_bronze"
      /\ bronze_rows # NotBuilt
      /\ PayloadRows(raw_payload.raw) # <<>>
      /\ AllArraysFilled(raw_payload.raw) )
    => (bronze_rows.status = "ok" /\ RowsMatchLeaves)

\* a store sub-record with an empty history array next to one with two
\* elements: three rows come back, one of them without a product
C27_EmptyHistoryGivesRow ==
    /\ FlattenReturned
    /\ Len(Leaves(raw_payload.raw)) = 2
    /\ Len(bronze_rows.rows) = 3
    /\ \E i \in DOMAIN bronze_rows.rows : bronze_rows.rows[i].number_product = Missing

SilverRanWithoutDeliveries ==
    silver_sales_daily # NotBuilt /\ bronze_deliveries_all = {}

\* C28: with bronze deliveries empty or absent, build_silver_sales_daily
\* completes: for non-empty bronze sales it returns one row per aggregated
\* sales key with delivery_qty = 0, for empty bronze sales a table without
\* rows.
C28_EmptyDeliveriesComplete ==
    SilverRanWithoutDeliveries =>
        /\ SilverOk
        /\ { keys_raw(r) : r \in SilverFact } = { keys_raw(s) : s \in bronze_sales_all }
        /\ \A r, x \in SilverFact : keys_raw(r) = keys_raw(x) => r = x
        /\ \A r \in SilverFact : r.delivery_qty = 0

\* what the builder does instead: it stops with UnboundLocalError, with and
\* without bronze sales
C28_EmptyDeliveriesRaise ==
    SilverRanWithoutDeliveries =>
        silver_sales_daily = [status |-> "error", error |-> "UnboundLocalError"]

\* the builder has run on non-empty sales and empty deliveries
C28_SalesWithoutDeliveries ==
    SilverRanWithoutDeliveries /\ bronze_sales_all # {}

\* the builder has run on empty sales and empty deliveries
C28_NeitherSalesNorDeliveries ==
    SilverRanWithoutDeliveries /\ bronze_sales_all = {}

\* ---- gold fact, key
SameGoldKey(a, b) ==
    /\ a.id_store = b.id_store
    /\ a.id_product = b.id_product
    /\ a.target_date = b.target_date

\* C29: the gold fact has at most one row per (id_store, id_product,
\* target_date), also when a pack SKU has rows of its own in the silver fact
\* and when a product or store has no surrogate id.
C29_GoldKeyUnique ==
    GoldOk =>
        \A a \in GoldRows :
            /\ CopiesIn(a, fact_daily.rows) = 1
            /\ \A b \in GoldRows : SameGoldKey(a, b) => a = b

\* C29 for the facts without pack-SKU rows and with an id for every store
\* and product (holds)
C29_GoldKeyUniqueWithoutPackRows ==
    (GoldOk /\ PackDeliveries = {}
     /\ \A r \in SilverFact : r.id_store # NA /\ r.id_product # NA) =>
        \A a \in GoldRows :
            /\ CopiesIn(a, fact_daily.rows) = 1
            /\ \A b \in GoldRows : SameGoldKey(a, b) => a = b

\* every store and product has its id, the pack SKU has a silver row and a
\* pack row on the same day at the same store: two gold rows under one key
C29_PackRowBesideOwnRow ==
    /\ GoldOk
    /\ \A r \in SilverFact : r.id_store # NA /\ r.id_product # NA
    /\ \E a, b \in GoldRows :
           /\ a # b /\ SameGoldKey(a, b)
           /\ a.id_store # NA /\ a.id_product # NA

\* ---- dense calendar, totals
\* the table handed to _dense_calendar: base rows and pack-SKU rows
CalendarInput ==
    Base(SilverFact, dim_product)
    (+) SetToBag(IF bronze_deliveries_all # {} /\ delivery_to_sales_map # {}
                 THEN Extras(bronze_deliveries_all, delivery_to_sales_map,
                             mapping_product_union, mapping_store_union, dim_product)
                 ELSE {})

\* the totals of the three measures over the rows of pair (s, p) in table df
PairTotals(df, s, p) ==
    LET g == PairRows(BagToSet(df), s, p)
    IN  [sales_qty |-> SumQ({ [row |-> r, q |-> r.sales_qty * df[r]] : r \in g }),
         return_qty |-> SumQ({ [row |-> r, q |-> r.return_qty * df[r]] : r \in g }),
         delivery_qty |-> SumQ({ [row |-> r, q |-> r.delivery_qty * df[r]] : r \in g })]

\* a row without its price, which the calendar may fill
Observation(r) ==
    [id_store |-> r.id_store, id_product |-> r.id_product,
     target_date |-> r.target_date, sales_qty |-> r.sales_qty,
     return_qty |-> r.return_qty, delivery_qty |-> r.delivery_qty,
     stockout |-> r.stockout]

\* how often table df holds a row with the observation o
Occurrences(df, o) ==
    SumQ({ [row |-> r, q |-> df[r]] : r \in { x \in BagToSet(df) : Observation(x) = o } })

\* C30: the calendar only adds rows with zero measures: per (id_store,
\* id_product) pair the totals of sales_qty, return_qty and delivery_qty of
\* the gold fact are the totals of the pair's rows handed to _dense_calendar,
\* and every such row is in the gold fact with its pair, date, measures and
\* stockout flag, as often as it was handed over.
C30_CalendarKeepsTotalsAndRows ==
    GoldOk =>
        /\ \A r \in BagToSet(CalendarInput) :
               /\ PairTotals(fact_daily.rows, r.id_store, r.id_product)
                      = PairTotals(CalendarInput, r.id_store, r.id_product)
               /\ Occurrences(fact_daily.rows, Observation(r))
                      >= Occurrences(CalendarInput, Observation(r))
        /\ \A x \in GoldRows : \E r \in BagToSet(CalendarInput) : SamePair(r, x)

\* a pair with a day the calendar had to add, with two rows on one of its
\* observed days and a total that is not zero
C30_Witness ==
    /\ GoldOk
    /\ \E a, b \in BagToSet(CalendarInput) :
           /\ a # b /\ SamePair(a, b) /\ a.target_date = b.target_date
           /\ \E x \in GoldRows :
                  /\ SamePair(x, a)
                  /\ ~ \E o \in BagToSet(CalendarInput) :
                           SamePair(o, x) /\ o.target_date = x.target_date
           /\ PairTotals(fact_daily.rows, a.id_store, a.id_product).delivery_qty > 0

====
